---- MODULE Spec2Model ----
(***************************************************************************)
(* A model of pandas/core/indexing.py: the key resolution of the ix, loc   *)
(* and iloc accessors, their reads along one axis, and assignment through  *)
(* them (enlargement, alignment, storage assignment).                      *)
(*                                                                         *)
(* Positions are 0-based as in the source.  A label is a record            *)
(* [k, n]: k = "i" an integer n, k = "s" the n-th string, k = "f" the      *)
(* float n/2, k = "none" Python's None (a missing slice bound).            *)
(* An axis is [labels, multi]; for a hierarchical axis (multi) labels      *)
(* holds the level-0 label of every row.                                   *)
(* An object is [ndim, axes, vals, mixed]: vals[r][c] is the cell of row   *)
(* r+1 and column c+1 (a Series has one column and one axis); mixed is     *)
(* the storage's _is_mixed_type.                                           *)
(***************************************************************************)
EXTENDS Integers, Sequences, FiniteSets, TLC

VARIABLES obj, before, call, ret, nwrites

vars == <<obj, before, call, ret, nwrites>>

\* longest axis of an object (an enlargement may not go beyond it)
MaxLen == 3

\* longest sequence of writes to one object
MaxWrites == 2

\* np.nan, the missing fill
NaN == -1

----------------------------------------------------------------------------
\* Labels and Python's comparisons of them

None == [k |-> "none", n |-> 0]

I(n) == [k |-> "i", n |-> n]

S(n) == [k |-> "s", n |-> n]

F(h) == [k |-> "f", n |-> h]

is_integer(x) == x.k = "i"

is_float(x) == x.k = "f"

IsNum(x) == x.k \in {"i", "f"}

\* twice the numeric value of an integer or float label
Num2(x) == IF x.k = "i" THEN 2 * x.n ELSE x.n

\* Python's == (and hash) on labels: 1 == 1.0
LabEq(a, b) == IF IsNum(a) /\ IsNum(b) THEN Num2(a) = Num2(b) ELSE a = b

\* Python 2's < on labels: numbers by value, every number below every string
LabLess(a, b) ==
    IF IsNum(a) /\ IsNum(b) THEN Num2(a) < Num2(b)
    ELSE IF IsNum(a) THEN b.k = "s"
    ELSE IF IsNum(b) THEN FALSE
    ELSE a.n < b.n

\* int(x) of an integer or an integer-valued float
IntOf(x) == IF x.k = "i" THEN x.n ELSE x.n \div 2

SeqToSet(s) == {s[i] : i \in DOMAIN s}

\* the positions start, start+step, ... before stop (Python's range)
RECURSIVE range(_, _, _)
range(start, stop, step) ==
    IF (step > 0 /\ start >= stop) \/ (step < 0 /\ start <= stop) \/ step = 0
    THEN <<>>
    ELSE <<start>> \o range(start + step, stop, step)

Max(a, b) == IF a > b THEN a ELSE b

Min(a, b) == IF a < b THEN a ELSE b

----------------------------------------------------------------------------
\* The label set of one axis (pandas.core.index.Index)

Axis(labels, multi) == [labels |-> labels, multi |-> multi]

len(ax) == Len(ax.labels)

\* Index.inferred_type (lib.infer_dtype of the labels); a MultiIndex is "mixed"
inferred_type(ax) ==
    LET ks == {ax.labels[i].k : i \in DOMAIN ax.labels}
    IN  IF ax.multi THEN "mixed"
        ELSE IF ks = {} THEN "empty"
        ELSE IF ks = {"i"} THEN "integer"
        ELSE IF ks = {"f"} THEN "floating"
        ELSE IF ks = {"s"} THEN "string"
        ELSE IF ks = {"i", "f"} THEN "mixed-integer-float"
        ELSE IF "i" \in ks THEN "mixed-integer"
        ELSE "mixed"

\* 'mixed' in ltype
has_mixed(ltype) == ltype \in {"mixed", "mixed-integer", "mixed-integer-float"}

\* mutant: the kind is compared with a name no axis has
is_integer_index_typo(ax) == inferred_type(ax) = "int"

\* _is_integer_index
is_integer_index(ax) == inferred_type(ax) = "integer"

\* the ascending 0-based positions whose label equals key
RECURSIVE Matches(_, _, _)
Matches(labels, key, i) ==
    IF i > Len(labels) THEN <<>>
    ELSE (IF LabEq(labels[i], key) THEN <<i - 1>> ELSE <<>>)
         \o Matches(labels, key, i + 1)

\* key in ax
Contains(ax, key) == \E i \in DOMAIN ax.labels : LabEq(ax.labels[i], key)

is_unique(ax) ==
    \A i, j \in DOMAIN ax.labels : i # j => ~LabEq(ax.labels[i], ax.labels[j])

is_monotonic(ax) ==
    \A i \in DOMAIN ax.labels :
        i < Len(ax.labels) => ~LabLess(ax.labels[i + 1], ax.labels[i])

\* Index.get_loc: the position(s) of a label, KeyError when it is absent
get_loc(ax, key) ==
    LET m == Matches(ax.labels, key, 1)
    IN  IF key.k = "none" \/ m = <<>>
        THEN [ok |-> FALSE, exc |-> "KeyError", pos |-> <<>>]
        ELSE [ok |-> TRUE, exc |-> "", pos |-> m]

\* Index.searchsorted on a monotonic axis
searchsorted(ax, key, side) ==
    IF side = "left"
    THEN Cardinality({i \in DOMAIN ax.labels : LabLess(ax.labels[i], key)})
    ELSE Cardinality({i \in DOMAIN ax.labels : ~LabLess(key, ax.labels[i])})

\* Index.slice_locs: the position range of a label slice, both ends inclusive
slice_locs(ax, start, end) ==
    LET sl == get_loc(ax, start)
        el == get_loc(ax, end)
        mono == is_monotonic(ax)
        \* several matches on a non-monotonic axis come back as a mask
        sfound == sl.ok /\ (Len(sl.pos) = 1 \/ mono)
        efound == el.ok /\ (Len(el.pos) = 1 \/ mono)
        sok == start = None \/ sfound \/ mono
        eok == end = None \/ efound \/ mono
        s == IF start = None THEN 0
             ELSE IF sfound THEN sl.pos[1]
             ELSE searchsorted(ax, start, "left")
        e == IF end = None THEN len(ax)
             ELSE IF efound THEN el.pos[Len(el.pos)] + 1
             ELSE searchsorted(ax, end, "right")
    IN  IF sok /\ eok
        THEN [ok |-> TRUE, exc |-> "", a |-> s, b |-> e]
        ELSE [ok |-> FALSE, exc |-> "KeyError", a |-> 0, b |-> 0]

\* Index.slice_indexer: slice(start_slice, end_slice, step)
slice_indexer(ax, start, stop, step) == slice_locs(ax, start, stop)

----------------------------------------------------------------------------
\* Keys (what the caller passes) and indexers (what the resolver returns)

ScalarKey(lab) ==
    [t |-> "scalar", lab |-> lab, a |-> None, b |-> None, step |-> 0,
     items |-> <<>>]

\* step 0 stands for step None
SliceKey(a, b, step) ==
    [t |-> "slice", lab |-> None, a |-> a, b |-> b, step |-> step,
     items |-> <<>>]

\* a list of labels or positions
ListKey(items) ==
    [t |-> "list", lab |-> None, a |-> None, b |-> None, step |-> 0,
     items |-> items]

\* a per-axis tuple of keys
TupleKey(keys) ==
    [t |-> "tuple", lab |-> None, a |-> None, b |-> None, step |-> 0,
     items |-> keys]

\* a boolean mask without labels (a list or an array of booleans)
MaskKey(items) ==
    [t |-> "mask", lab |-> None, a |-> None, b |-> None, step |-> 0,
     items |-> items, index |-> <<>>, labelled |-> FALSE]

\* a boolean Series: a mask with its own labels
SeriesMaskKey(index, items) ==
    [t |-> "mask", lab |-> None, a |-> None, b |-> None, step |-> 0,
     items |-> items, index |-> index, labelled |-> TRUE]

\* An indexer: t = "pos" a position p; "slice" a position slice a:b:step;
\* "list" positions; "missing" the sentinel {'key': key}; "tuple" one indexer
\* per axis; "invalid" a key of no valid type; "err" an exception exc.
\* via names the branch of the resolver that produced it.
Indexer(t, via) ==
    [t |-> t, via |-> via, p |-> 0, a |-> None, b |-> None, step |-> 0,
     items |-> <<>>, key |-> None, exc |-> ""]

PosIx(p, via) == [Indexer("pos", via) EXCEPT !.p = p]

SliceIx(a, b, step, via) ==
    [Indexer("slice", via) EXCEPT !.a = a, !.b = b, !.step = step]

ListIx(items, via) == [Indexer("list", via) EXCEPT !.items = items]

\* a boolean array used as an indexer
MaskIx(items) == [Indexer("mask", "mask") EXCEPT !.items = items]

MissingIx(key) == [Indexer("missing", "missing") EXCEPT !.key = key]

TupleIx(items) == [Indexer("tuple", "tuple") EXCEPT !.items = items]

ErrIx(exc, via) == [Indexer("err", via) EXCEPT !.exc = exc]

\* what labels.get_loc(obj) returns as an indexer: one position, or the
\* positions of a duplicated label (a slice or a mask in the source)
LocIx(loc) ==
    IF Len(loc.pos) = 1 THEN PosIx(loc.pos[1], "label")
    ELSE ListIx(loc.pos, "label")

----------------------------------------------------------------------------
\* Predicates on keys (module-level helpers of indexing.py)

\* _is_index_slice: every given bound is an integer or an integer-valued float
is_index_slice(key) ==
    LET valid(x) == is_integer(x) \/ (is_float(x) /\ x.n % 2 = 0)
        crit(v) == v = None \/ valid(v)
    IN  ~(key.a = None /\ key.b = None) /\ crit(key.a) /\ crit(key.b)

is_float_slice(key) ==
    LET crit(v) == v = None \/ is_float(v)
    IN  ~(key.a = None /\ key.b = None) /\ crit(key.a) /\ crit(key.b)

is_null_slice(key) ==
    key.t = "slice" /\ key.a = None /\ key.b = None /\ key.step = 0

\* mutant: a slice without bounds needs no slicing, whatever its step
need_slice_bounds_only(key) == key.a # None \/ key.b # None

\* _need_slice
need_slice(key) ==
    key.a # None \/ key.b # None \/ (key.step # 0 /\ key.step # 1)

is_list_like(key) == key.t \in {"list", "tuple", "mask"}

is_label_like(key) == key.t # "slice" /\ ~is_list_like(key)

\* _is_integer_dtype(_asarray_tuplesafe(items)): a non-empty list of integers
is_integer_dtype(items) ==
    items # <<>> /\ \A i \in DOMAIN items : is_integer(items[i])

\* com._is_bool_indexer
is_bool_indexer(key) == key.t = "mask"

\* mask.nonzero(): the ascending 0-based positions of the true entries
RECURSIVE nonzero(_, _)
nonzero(mask, i) ==
    IF i > Len(mask) THEN <<>>
    ELSE (IF mask[i] THEN <<i - 1>> ELSE <<>>) \o nonzero(mask, i + 1)

\* key.index.equals(ax)
index_equals(labels, other) ==
    /\ Len(labels) = Len(other)
    /\ \A i \in DOMAIN labels : LabEq(labels[i], other[i])

\* mutant: a labelled mask must carry the labels of the axis in their order
check_bool_indexer_exact(ax, key) ==
    IF key.labelled /\ ~index_equals(key.index, ax.labels)
    THEN [ok |-> FALSE, exc |-> "IndexingError", mask |-> <<>>]
    ELSE [ok |-> TRUE, exc |-> "", mask |-> key.items]

\* _check_bool_indexer: [ok, exc, mask]; a boolean Series whose labels are
\* not those of the axis is reindexed to the axis and refused when an axis
\* label has no entry in it; any other mask is taken as it is
check_bool_indexer(ax, key) ==
    LET own == Axis(key.index, FALSE)
        loc(i) == get_loc(own, ax.labels[i])
    IN  IF key.labelled /\ ~index_equals(key.index, ax.labels)
        THEN IF ~is_unique(own)
             THEN [ok |-> FALSE, exc |-> "ValueError", mask |-> <<>>]
             ELSE IF \E i \in DOMAIN ax.labels : ~loc(i).ok
             THEN [ok |-> FALSE, exc |-> "IndexingError", mask |-> <<>>]
             ELSE [ok |-> TRUE, exc |-> "",
                   mask |-> [i \in DOMAIN ax.labels |->
                                key.items[loc(i).pos[1] + 1]]]
        ELSE [ok |-> TRUE, exc |-> "", mask |-> key.items]

\* mutant: the mask selects every position it has an entry for
convert_mask_every_entry(ax, key) ==
    LET m == check_bool_indexer(ax, key)
    IN  IF m.ok THEN ListIx([i \in DOMAIN m.mask |-> i - 1], "mask")
        ELSE ErrIx(m.exc, "mask")

\* the mask branch of _convert_to_indexer (lines 808-812): the positions of
\* the true entries
convert_mask(ax, key) ==
    LET m == check_bool_indexer(ax, key)
    IN  IF m.ok THEN ListIx(nonzero(m.mask, 1), "mask")
        ELSE ErrIx(m.exc, "mask")

----------------------------------------------------------------------------
\* _NDFrameIndexer._convert_to_indexer (also used by loc)

\* mutant: a failed label slicing falls back to positions on every axis
convert_slice_always_fallback(ax, key) ==
    LET ltype == inferred_type(ax)
        float_slice == ltype = "floating" /\ is_float_slice(key)
        int_slice == is_index_slice(key)
        null_slice == key.a = None /\ key.b = None
        position_slice0 ==
            int_slice /\ ltype # "integer" /\ ~ax.multi /\ ~float_slice
        ditch == position_slice0 /\ has_mixed(ltype)
        found == (key.a = None \/ get_loc(ax, key.a).ok)
                 /\ (key.b = None \/ get_loc(ax, key.b).ok)
        position_slice == position_slice0 /\ ~(ditch /\ found)
        si == slice_indexer(ax, key.a, key.b, key.step)
    IN  IF ditch /\ ~found /\ ltype = "mixed-integer-float"
        THEN ErrIx("KeyError", "ditch")
        ELSE IF null_slice
        THEN SliceIx(key.a, key.b, key.step, "null")
        ELSE IF position_slice
        THEN SliceIx(key.a, key.b, key.step, "position")
        ELSE IF si.ok
        THEN SliceIx(I(si.a), I(si.b), key.step, "label")
        ELSE IF is_index_slice(key)
        THEN SliceIx(key.a, key.b, key.step, "fallback")
        ELSE ErrIx(si.exc, "label")

\* mutant: one bound that is a label is enough for label semantics
convert_slice_any_bound(ax, key) ==
    LET ltype == inferred_type(ax)
        float_slice == ltype = "floating" /\ is_float_slice(key)
        int_slice == is_index_slice(key)
        null_slice == key.a = None /\ key.b = None
        position_slice0 ==
            int_slice /\ ltype # "integer" /\ ~ax.multi /\ ~float_slice
        ditch == position_slice0 /\ has_mixed(ltype)
        found == (key.a # None /\ get_loc(ax, key.a).ok)
                 \/ (key.b # None /\ get_loc(ax, key.b).ok)
        position_slice == position_slice0 /\ ~(ditch /\ found)
        si == slice_indexer(ax, key.a, key.b, key.step)
    IN  IF ditch /\ ~found /\ ltype = "mixed-integer-float"
        THEN ErrIx("KeyError", "ditch")
        ELSE IF null_slice
        THEN SliceIx(key.a, key.b, key.step, "null")
        ELSE IF position_slice
        THEN SliceIx(key.a, key.b, key.step, "position")
        ELSE IF si.ok
        THEN SliceIx(I(si.a), I(si.b), key.step, "label")
        ELSE IF is_index_slice(key) /\ ltype # "integer"
        THEN SliceIx(key.a, key.b, key.step, "fallback")
        ELSE ErrIx(si.exc, "label")

\* the slice branch: a position slice is the key itself, a label slice is
\* what labels.slice_indexer returns
convert_slice(ax, key) ==
    LET ltype == inferred_type(ax)
        float_slice == ltype = "floating" /\ is_float_slice(key)
        int_slice == is_index_slice(key)
        null_slice == key.a = None /\ key.b = None
        position_slice0 ==
            int_slice /\ ltype # "integer" /\ ~ax.multi /\ ~float_slice
        \* last ditch effort: if we are mixed and have integers
        ditch == position_slice0 /\ has_mixed(ltype)
        found == (key.a = None \/ get_loc(ax, key.a).ok)
                 /\ (key.b = None \/ get_loc(ax, key.b).ok)
        position_slice == position_slice0 /\ ~(ditch /\ found)
        si == slice_indexer(ax, key.a, key.b, key.step)
    IN  IF ditch /\ ~found /\ ltype = "mixed-integer-float"
        THEN ErrIx("KeyError", "ditch")
        ELSE IF null_slice
        THEN SliceIx(key.a, key.b, key.step, "null")
        ELSE IF position_slice
        THEN SliceIx(key.a, key.b, key.step, "position")
        ELSE IF si.ok
        THEN SliceIx(I(si.a), I(si.b), key.step, "label")
        ELSE IF is_index_slice(key) /\ ltype # "integer"
        THEN SliceIx(key.a, key.b, key.step, "fallback")
        ELSE ErrIx(si.exc, "label")

\* the list branch (a list of labels or positions)
RECURSIVE get_indexer(_, _, _)
get_indexer(ax, items, i) ==
    IF i > Len(items) THEN <<>>
    ELSE Matches(ax.labels, items[i], 1) \o get_indexer(ax, items, i + 1)

convert_list(ax, key, is_setter) ==
    LET n == len(ax)
        neg(x) == IF x.n < 0 THEN n + x.n ELSE x.n
    IN  IF is_integer_dtype(key.items) /\ ~is_integer_index(ax)
        THEN ListIx([i \in DOMAIN key.items |-> neg(key.items[i])], "position")
        ELSE IF \E i \in DOMAIN key.items : ~Contains(ax, key.items[i])
        THEN ErrIx("KeyError", "label")
        ELSE ListIx(get_indexer(ax, key.items, 1), "label")

\* mutant: the sentinel is returned whether or not the call is a setter
convert_to_indexer_no_setter_check(ax, key, is_setter) ==
    IF key.t = "scalar" /\ is_integer(key.lab) /\ ~is_integer_index(ax)
    THEN PosIx(key.lab.n, "position")
    ELSE IF key.t = "scalar" /\ get_loc(ax, key.lab).ok
    THEN LocIx(get_loc(ax, key.lab))
    ELSE IF key.t = "slice" THEN convert_slice(ax, key)
    ELSE IF key.t = "list" THEN convert_list(ax, key, is_setter)
    ELSE IF is_bool_indexer(key) THEN convert_mask(ax, key)
    ELSE IF key.t = "scalar" THEN MissingIx(key.lab)
    ELSE ErrIx("KeyError", "label")

\* mutant: the label lookup is tried before the integer is taken as a position
convert_to_indexer_label_first(ax, key, is_setter) ==
    IF key.t = "scalar" /\ get_loc(ax, key.lab).ok
    THEN LocIx(get_loc(ax, key.lab))
    ELSE IF key.t = "scalar" /\ is_integer(key.lab) /\ ~is_integer_index(ax)
    THEN PosIx(key.lab.n, "position")
    ELSE IF key.t = "slice" THEN convert_slice(ax, key)
    ELSE IF key.t = "list" THEN convert_list(ax, key, is_setter)
    ELSE IF is_bool_indexer(key) THEN convert_mask(ax, key)
    ELSE IF key.t = "scalar" /\ is_setter THEN MissingIx(key.lab)
    ELSE ErrIx("KeyError", "label")

\* _NDFrameIndexer._convert_to_indexer for a scalar, a slice or a list key
convert_to_indexer(ax, key, is_setter) ==
    IF key.t = "scalar" /\ is_integer(key.lab) /\ ~is_integer_index(ax)
    THEN PosIx(key.lab.n, "position")
    ELSE IF key.t = "scalar" /\ get_loc(ax, key.lab).ok
    THEN LocIx(get_loc(ax, key.lab))
    ELSE IF key.t = "slice" THEN convert_slice(ax, key)
    ELSE IF key.t = "list" THEN convert_list(ax, key, is_setter)
    ELSE IF is_bool_indexer(key) THEN convert_mask(ax, key)
    ELSE \* allow a not found key only if we are a setter
         IF key.t = "scalar" /\ is_setter THEN MissingIx(key.lab)
         ELSE ErrIx("KeyError", "label")

\* _iLocIndexer._has_valid_type: a slice, an integer or a list
iLoc_has_valid_type(key) ==
    key.t = "slice" \/ (key.t = "scalar" /\ is_integer(key.lab))
    \/ is_list_like(key)

\* mutant: a mask is refused when the target axis holds integers
iLoc_has_valid_mask_by_axis(ax, key) ==
    IF is_integer_index(ax) THEN "NotImplementedError" ELSE ""

\* _iLocIndexer._has_valid_type for a boolean mask (lines 1049-1054): the
\* exception raised, "" when the mask is valid
iLoc_has_valid_mask(ax, key) ==
    IF key.labelled
    THEN IF inferred_type(Axis(key.index, FALSE)) = "integer"
         THEN "NotImplementedError"
         ELSE "ValueError"
    ELSE ""

\* _iLocIndexer._convert_to_indexer: a valid key is its own indexer
KeyIx(key) ==
    IF key.t = "scalar" THEN PosIx(key.lab.n, "position")
    ELSE IF key.t = "slice" THEN SliceIx(key.a, key.b, key.step, "position")
    ELSE IF key.t = "mask" THEN MaskIx(key.items)
    ELSE ListIx([i \in DOMAIN key.items |-> key.items[i].n], "position")

iLoc_convert_to_indexer(ax, key, is_setter) ==
    IF is_bool_indexer(key)
    THEN IF iLoc_has_valid_mask(ax, key) = "" THEN KeyIx(key)
         ELSE ErrIx(iLoc_has_valid_mask(ax, key), "invalid")
    ELSE IF iLoc_has_valid_type(key) THEN KeyIx(key)
    ELSE ErrIx("ValueError", "invalid")

----------------------------------------------------------------------------
\* Objects and the storage calls the indexers make on them

Series(ax, values) ==
    [ndim |-> 1, axes |-> <<ax>>,
     vals |-> [r \in DOMAIN values |-> <<values[r]>>], mixed |-> FALSE]

Frame(index, columns, vals, mixed) ==
    [ndim |-> 2, axes |-> <<index, columns>>, vals |-> vals, mixed |-> mixed]

\* obj._get_axis(axis), axis 0-based
get_axis(o, axis) == o.axes[axis + 1]

\* what a read returns: the positions it selects along the axis (scalar: one
\* entry, the dimension dropped), sem the semantics the key was given
Selection(pos, scalar, sem) ==
    [ok |-> TRUE, exc |-> "", pos |-> pos, scalar |-> scalar, sem |-> sem,
     ix |-> Indexer("none", "")]

Raise(exc, sem) ==
    [ok |-> FALSE, exc |-> exc, pos |-> <<>>, scalar |-> FALSE, sem |-> sem,
     ix |-> Indexer("none", "")]

Resolved(ix) ==
    [ok |-> ix.t # "err", exc |-> ix.exc, pos |-> <<>>, scalar |-> FALSE,
     sem |-> ix.via, ix |-> ix]

\* Python's slice.indices and range over them: the positions a slice selects
\* on an axis of length n (a float bound is truncated)
slice_positions(n, a, b, step0) ==
    LET step == IF step0 = 0 THEN 1 ELSE step0
        lower == IF step < 0 THEN -1 ELSE 0
        upper == IF step < 0 THEN n - 1 ELSE n
        clip(x) == IF x < 0 THEN Max(x + n, lower) ELSE Min(x, upper)
        start == IF a = None THEN (IF step < 0 THEN upper ELSE lower)
                 ELSE clip(IntOf(a))
        stop == IF b = None THEN (IF step < 0 THEN lower ELSE upper)
                ELSE clip(IntOf(b))
    IN  range(start, stop, step)

\* mutant: the start bound is allowed to be one past the last position
check_slice_bounds_off_by_one(a, b, l) ==
    /\ a # None => ~(a.n < -l \/ a.n > l)
    /\ b # None => ~(b.n < -l - 1 \/ b.n > l)

\* _check_slice_bounds: TRUE when it does not raise
check_slice_bounds(a, b, l) ==
    /\ a # None => ~(a.n < -l \/ a.n > l - 1)
    /\ b # None => ~(b.n < -l - 1 \/ b.n > l)

\* obj._slice(slobj, axis, raise_on_error)
slice_obj(o, ix, axis, raise_on_error, sem) ==
    LET n == len(get_axis(o, axis))
    IN  IF raise_on_error /\ ~check_slice_bounds(ix.a, ix.b, n)
        THEN Raise("IndexError", "out-of-bounds on slice")
        ELSE Selection(slice_positions(n, ix.a, ix.b, ix.step), FALSE, sem)

\* obj._xs(label, axis): the entries labelled label, KeyError when there are none
xs(o, label, axis) ==
    LET loc == get_loc(get_axis(o, axis), label)
    IN  IF loc.ok THEN Selection(loc.pos, Len(loc.pos) = 1, "label")
        ELSE Raise("KeyError", "label")

\* obj._ixs(i, axis): the entry at position i
ixs(o, i, axis) ==
    LET n == len(get_axis(o, axis))
    IN  IF i >= n \/ i < -n THEN Raise("IndexError", "position")
        ELSE Selection(<<IF i < 0 THEN i + n ELSE i>>, TRUE, "position")

----------------------------------------------------------------------------
\* Reads along one axis

\* _NDFrameIndexer._get_label and _get_loc
get_label(o, label, axis) == xs(o, label, axis)

get_loc_pos(o, key, axis) == ixs(o, key.n, axis)

\* _NDFrameIndexer._get_slice_axis (ix)
get_slice_axis(o, key, axis) ==
    LET labels == get_axis(o, axis)
        ltype == inferred_type(labels)
        float_slice == ltype = "floating" /\ is_float_slice(key)
        int_slice == is_index_slice(key)
        null_slice == key.a = None /\ key.b = None
        position_slice0 ==
            int_slice /\ ltype # "integer" /\ ~labels.multi /\ ~float_slice
        ditch == position_slice0 /\ has_mixed(ltype)
        found == (key.a = None \/ get_loc(labels, key.a).ok)
                 /\ (key.b = None \/ get_loc(labels, key.b).ok)
        position_slice == position_slice0 /\ ~(ditch /\ found)
        si == slice_indexer(labels, key.a, key.b, key.step)
        keyix == SliceIx(key.a, key.b, key.step, "position")
    IN  IF ~need_slice(key)
        THEN Selection(range(0, len(labels), 1), FALSE, "null")
        ELSE IF ditch /\ ~found /\ ltype = "mixed-integer-float"
        THEN Raise("KeyError", "ditch")
        ELSE IF null_slice THEN slice_obj(o, keyix, axis, FALSE, "null")
        ELSE IF position_slice
        THEN slice_obj(o, keyix, axis, FALSE, "position")
        ELSE IF si.ok
        THEN slice_obj(o, SliceIx(I(si.a), I(si.b), key.step, "label"), axis,
                       FALSE, "label")
        ELSE IF is_index_slice(key) /\ ltype # "integer"
        THEN slice_obj(o, keyix, axis, FALSE, "fallback")
        ELSE Raise(si.exc, "label")

\* _NDFrameIndexer._getitem_axis (ix) for a slice or a scalar key
getitem_axis(o, key, axis) ==
    LET labels == get_axis(o, axis)
        level0 == Axis(labels.labels, FALSE)
        lab == get_label(o, key.lab, axis)
    IN  IF key.t = "slice" THEN get_slice_axis(o, key, axis)
        ELSE IF is_integer(key.lab) /\ axis = 0 /\ labels.multi /\ lab.ok
        THEN lab
        ELSE IF is_integer(key.lab) /\ axis = 0 /\ labels.multi
                /\ is_integer_index(level0)
        THEN lab
        ELSE IF is_integer(key.lab) /\ ~is_integer_index(labels)
        THEN get_loc_pos(o, key.lab, axis)
        ELSE lab

\* mutant: only the start bound is required to be a label
Loc_has_valid_type_start_only(ax, key) ==
    IF key.a # None /\ ~Contains(ax, key.a) THEN "KeyError" ELSE ""

\* _LocIndexer._has_valid_type: the exception raised, "" when the key is
\* valid (a slice between labels of the axis, a mask, a list of labels of the
\* axis, a label of the axis)
Loc_has_valid_type(ax, key) ==
    IF key.t = "slice"
    THEN IF key.a # None /\ ~Contains(ax, key.a) THEN "KeyError"
         ELSE IF key.b # None /\ ~Contains(ax, key.b) THEN "KeyError"
         ELSE ""
    ELSE IF is_bool_indexer(key) THEN ""
    ELSE IF key.t = "list"
    THEN IF \E i \in DOMAIN key.items : ~Contains(ax, key.items[i])
         THEN "KeyError"
         ELSE ""
    ELSE IF len(ax) = 0 \/ ~Contains(ax, key.lab) THEN "KeyError"
    ELSE ""

\* _LocationIndexer._get_slice_axis (loc)
Loc_get_slice_axis(o, key, axis) ==
    LET labels == get_axis(o, axis)
        si == slice_indexer(labels, key.a, key.b, key.step)
    IN  IF ~need_slice(key)
        THEN Selection(range(0, len(labels), 1), FALSE, "null")
        ELSE IF ~si.ok THEN Raise(si.exc, "label")
        ELSE slice_obj(o, SliceIx(I(si.a), I(si.b), key.step, "label"), axis,
                       FALSE, "label")

\* _LocIndexer._getitem_axis for a slice or a scalar key
Loc_getitem_axis(o, key, axis) ==
    IF key.t = "slice"
    THEN IF Loc_has_valid_type(get_axis(o, axis), key) # ""
         THEN Raise(Loc_has_valid_type(get_axis(o, axis), key), "invalid")
         ELSE Loc_get_slice_axis(o, key, axis)
    ELSE get_label(o, key.lab, axis)

\* _iLocIndexer._get_slice_axis
iLoc_get_slice_axis(o, key, axis) ==
    IF ~need_slice(key)
    THEN Selection(range(0, len(get_axis(o, axis)), 1), FALSE, "null")
    ELSE slice_obj(o, SliceIx(key.a, key.b, key.step, "position"), axis, TRUE,
                   "position")

\* _iLocIndexer._getitem_axis for a slice or a scalar key
iLoc_getitem_axis(o, key, axis) ==
    IF key.t = "slice" THEN iLoc_get_slice_axis(o, key, axis)
    ELSE IF ~is_integer(key.lab) THEN Raise("ValueError", "invalid")
    ELSE get_loc_pos(o, key.lab, axis)

----------------------------------------------------------------------------
\* The calls explored

\* the labels an axis may hold: 1, 2, "a", 1.0, 1.5
AxisLabels == {I(1), I(2), S(1), F(2), F(3)}

\* the labels a key may hold: those, and 0 (on no axis)
KeyLabels == AxisLabels \cup {I(0)}

SeqsUpTo(X, n) == UNION {[1..k -> X] : k \in 0..n}

\* flat and hierarchical axes of at most MaxLen entries
ReadAxes ==
    {Axis(l, m) : l \in SeqsUpTo(AxisLabels, MaxLen), m \in BOOLEAN}
    \ {Axis(<<>>, TRUE)}

ScalarKeys == {ScalarKey(l) : l \in KeyLabels}

LabelSlices == {SliceKey(a, b, 0) : a, b \in KeyLabels \cup {None}}

Positions == {I(n) : n \in -(MaxLen + 1)..(MaxLen + 1)}

PositionSlices == {SliceKey(a, b, s) : a, b \in Positions \cup {None}, s \in {0, 1}}

NoValue == [t |-> "none", v |-> 0, items |-> <<>>, labels |-> <<>>]

Call(op, name, key, setter, value) ==
    [op |-> op, name |-> name, key |-> key, setter |-> setter, value |-> value]

NoCall == Call("init", "", ScalarKey(None), FALSE, NoValue)

NoRet == Raise("", "")

----------------------------------------------------------------------------
\* Reads and key resolution on one axis of a Series

InitRead ==
    /\ obj \in {Series(ax, [r \in DOMAIN ax.labels |-> r - 1]) : ax \in ReadAxes}
    /\ before = obj
    /\ call = NoCall
    /\ ret = NoRet
    /\ nwrites = 0

\* obj.ix[key]
IxGetitem ==
    \E key \in ScalarKeys \cup LabelSlices :
        /\ call = NoCall
        /\ call' = Call("getitem", "ix", key, FALSE, NoValue)
        /\ ret' = getitem_axis(obj, key, 0)
        /\ before' = obj
        /\ UNCHANGED <<obj, nwrites>>

\* obj.loc[key]
LocGetitem ==
    \E key \in ScalarKeys \cup LabelSlices :
        /\ call = NoCall
        /\ call' = Call("getitem", "loc", key, FALSE, NoValue)
        /\ ret' = Loc_getitem_axis(obj, key, 0)
        /\ before' = obj
        /\ UNCHANGED <<obj, nwrites>>

\* obj.iloc[key]
ILocGetitem ==
    \E key \in {ScalarKey(p) : p \in Positions} \cup PositionSlices :
        /\ call = NoCall
        /\ call' = Call("getitem", "iloc", key, FALSE, NoValue)
        /\ ret' = iLoc_getitem_axis(obj, key, 0)
        /\ before' = obj
        /\ UNCHANGED <<obj, nwrites>>

\* obj.ix._convert_to_indexer(key, axis=0, is_setter)
ConvertToIndexer ==
    \E key \in ScalarKeys \cup LabelSlices, is_setter \in BOOLEAN :
        /\ call = NoCall
        /\ call' = Call("convert", "ix", key, is_setter, NoValue)
        /\ ret' = Resolved(convert_to_indexer(get_axis(obj, 0), key, is_setter))
        /\ before' = obj
        /\ UNCHANGED <<obj, nwrites>>

\* the call returns to the caller, who may issue the next one
Return ==
    /\ call # NoCall
    /\ call' = NoCall
    /\ ret' = NoRet
    /\ before' = obj
    /\ UNCHANGED <<obj, nwrites>>

NextRead ==
    IxGetitem \/ LocGetitem \/ ILocGetitem \/ ConvertToIndexer \/ Return

SpecRead == InitRead /\ [][NextRead]_vars

----------------------------------------------------------------------------
\* Values assigned, and the storage calls an assignment makes

ScalarValue(v) == [t |-> "scalar", v |-> v, items |-> <<>>, labels |-> <<>>]

\* a list or 1-d array of cell values
ListValue(items) == [t |-> "list", v |-> 0, items |-> items, labels |-> <<>>]

\* a Series: cell values with their own labels
SeriesValue(labels, items) ==
    [t |-> "series", v |-> 0, items |-> items, labels |-> labels]

\* a DataFrame: rows of cell values with row labels and column labels
FrameValue(index, columns, rows) ==
    [t |-> "frame", v |-> 0, items |-> rows, labels |-> index,
     columns |-> columns]

\* a 2-d array of cell values (DataFrame.values)
BlockValue(rows) == [t |-> "block", v |-> 0, items |-> rows, labels |-> <<>>]

\* the outcome of a write: the object afterwards, the exception raised ("" for
\* none) and the step that raised it
Res(o, exc, sem) == [o |-> o, exc |-> exc, sem |-> sem]

nrows(o) == len(o.axes[1])

ncols(o) == IF o.ndim = 1 THEN 1 ELSE len(o.axes[2])

\* slice(None)
NullSlice == SliceIx(None, None, 0, "null")

\* the positions one entry of an indexer selects on an axis of length n, as
\* numpy indexes an array: a negative position counts from the end, a
\* position outside -n..n-1 is an IndexError, a slice is clamped
select(ix, n) ==
    LET wrap(p) == IF p < 0 THEN p + n ELSE p
        oob(p) == p >= n \/ p < -n
    IN  IF ix.t = "pos"
        THEN IF oob(ix.p) THEN [ok |-> FALSE, pos |-> <<>>, scalar |-> TRUE]
             ELSE [ok |-> TRUE, pos |-> <<wrap(ix.p)>>, scalar |-> TRUE]
        ELSE IF ix.t = "slice"
        THEN [ok |-> TRUE, pos |-> slice_positions(n, ix.a, ix.b, ix.step),
              scalar |-> FALSE]
        ELSE IF ix.t = "mask"
        THEN IF \E i \in DOMAIN ix.items : ix.items[i] /\ i > n
             THEN [ok |-> FALSE, pos |-> <<>>, scalar |-> FALSE]
             ELSE [ok |-> TRUE, pos |-> nonzero(ix.items, 1), scalar |-> FALSE]
        ELSE IF \E i \in DOMAIN ix.items : oob(ix.items[i])
        THEN [ok |-> FALSE, pos |-> <<>>, scalar |-> FALSE]
        ELSE [ok |-> TRUE, pos |-> [i \in DOMAIN ix.items |-> wrap(ix.items[i])],
              scalar |-> FALSE]

\* values[rs, cs] = value on the cells of o (numpy assignment) for the
\* selections rs and cs of the rows and the columns: the value is broadcast
\* along the last dimension of the selection; pairs: two lists select pairs
put(o, rs, cs, value, pairs) ==
    LET L == Len(value.items)
        last == IF ~cs.scalar THEN Len(cs.pos)
                ELSE IF ~rs.scalar THEN Len(rs.pos) ELSE 1
        \* a 2-d value: its shape against the shape of the selection
        vc == IF L = 0 THEN 0 ELSE Len(value.items[1])
        fits2 == IF pairs THEN FALSE
                 ELSE IF ~rs.scalar /\ ~cs.scalar
                 THEN L \in {1, Len(rs.pos)} /\ vc \in {1, Len(cs.pos)}
                 ELSE L = 1 /\ vc \in {1, last}
        fits == IF value.t = "block" THEN fits2
                ELSE value.t = "scalar" \/ L = 1 \/ L = last
        \* the last entry of the selection that addresses position p
        at(sel, p) == CHOOSE i \in DOMAIN sel.pos :
                          /\ sel.pos[i] = p
                          /\ \A j \in DOMAIN sel.pos : sel.pos[j] = p => j <= i
        hit(r, c) ==
            IF pairs
            THEN \E i \in DOMAIN rs.pos : rs.pos[i] = r /\ cs.pos[i] = c
            ELSE (\E i \in DOMAIN rs.pos : rs.pos[i] = r)
                 /\ (\E j \in DOMAIN cs.pos : cs.pos[j] = c)
        cell(r, c) ==
            IF value.t = "scalar" THEN value.v
            ELSE IF value.t = "block"
            THEN value.items[IF L = 1 THEN 1 ELSE at(rs, r)]
                            [IF vc = 1 THEN 1
                             ELSE IF ~cs.scalar THEN at(cs, c) ELSE at(rs, r)]
            ELSE IF L = 1 THEN value.items[1]
            ELSE IF ~cs.scalar THEN value.items[at(cs, c)]
            ELSE value.items[at(rs, r)]
    IN  IF ~rs.ok \/ ~cs.ok THEN Res(o, "IndexError", "storage")
        ELSE IF pairs /\ Len(rs.pos) # Len(cs.pos)
        THEN Res(o, "IndexError", "storage")
        ELSE IF ~fits THEN Res(o, "ValueError", "storage")
        ELSE Res([o EXCEPT !.vals =
                    [r \in 1..nrows(o) |->
                        [c \in 1..ncols(o) |->
                            IF hit(r - 1, c - 1) THEN cell(r - 1, c - 1)
                            ELSE o.vals[r][c]]]],
                 "", "set")

\* values[rix, cix] = value; cross: the two lists were combined by np.ix_
\* (otherwise two lists select pairs)
assign(o, rix, cix, value, cross) ==
    put(o, select(rix, nrows(o)), select(cix, ncols(o)), value,
        rix.t = "list" /\ cix.t = "list" /\ ~cross)

\* obj.reindex_axis(labels, axis): the entries of o under the new labels of
\* the axis, np.nan where a label is new; an axis with duplicate labels
\* cannot be reindexed
reindex_axis(o, labels, axis) ==
    LET old == get_axis(o, axis)
        src(i) == get_loc(old, labels.labels[i])
        o2 == [o EXCEPT !.axes[axis + 1] = labels]
    IN  IF ~is_unique(old) THEN Res(o, "ValueError", "reindex")
        ELSE IF axis = 0
        THEN Res([o2 EXCEPT !.vals =
                    [r \in 1..len(labels) |->
                        IF src(r).ok THEN o.vals[src(r).pos[1] + 1]
                        ELSE [c \in 1..ncols(o) |-> NaN]]],
                 "", "reindex")
        ELSE Res([o2 EXCEPT !.vals =
                    [r \in 1..nrows(o) |->
                        [c \in 1..len(labels) |->
                            IF src(c).ok THEN o.vals[r][src(c).pos[1] + 1]
                            ELSE NaN]]],
                 "", "reindex")

\* mutant: the key is inserted at the front
safe_append_to_index_front(index, key) ==
    Axis(<<key>> \o index.labels, index.multi)

\* _safe_append_to_index: the labels with key inserted at the end
safe_append_to_index(index, key) == Axis(index.labels \o <<key>>, index.multi)

\* obj[key] = np.nan on a DataFrame: a new last column key of np.nan, or the
\* column(s) already labelled key overwritten
frame_setitem_nan(o, key) ==
    LET cols == get_axis(o, 1)
    IN  IF Contains(cols, key)
        THEN [o EXCEPT !.vals =
                 [r \in 1..nrows(o) |->
                     [c \in 1..ncols(o) |->
                         IF LabEq(cols.labels[c], key) THEN NaN
                         ELSE o.vals[r][c]]]]
        ELSE [o EXCEPT !.axes[2] = safe_append_to_index(cols, key),
                       !.vals = [r \in 1..nrows(o) |-> o.vals[r] \o <<NaN>>]]

\* self.obj._constructor(np.concatenate([values, [value]]), index=new_index)
series_append(o, new_index, value) ==
    IF value.t # "scalar" THEN Res(o, "ValueError", "concatenate")
    ELSE Res([o EXCEPT !.axes[1] = new_index,
                       !.vals = o.vals \o << <<value.v>> >>],
             "", "enlarge")

----------------------------------------------------------------------------
\* Assignment: _NDFrameIndexer.__setitem__ and _setitem_with_indexer

\* _convert_to_indexer of the accessor called name
convert(name, ax, key, is_setter) ==
    IF name = "iloc" THEN iLoc_convert_to_indexer(ax, key, is_setter)
    ELSE convert_to_indexer(ax, key, is_setter)

\* _NDFrameIndexer._convert_tuple
convert_tuple(name, o, key, is_setter) ==
    TupleIx([i \in DOMAIN key.items |->
                convert(name, o.axes[i], key.items[i], is_setter)])

\* _NDFrameIndexer._tuplify
tuplify(o, loc) == <<loc>> \o [i \in 1..(o.ndim - 1) |-> NullSlice]

\* mutant: a position equal to the length of the axis passes the check
has_valid_positional_setitem_indexer_past_end(o, indexer) ==
    LET tup == IF indexer.t = "tuple" THEN indexer.items ELSE tuplify(o, indexer)
    IN  /\ indexer.t # "missing"
        /\ \A i \in 1..Min(Len(o.axes), Len(tup)) :
               /\ ~(tup[i].t = "pos" /\ tup[i].p > len(o.axes[i]))
               /\ tup[i].t # "missing"

\* _has_valid_positional_setitem_indexer: FALSE when it raises IndexError
\* ('cannot enlarge its target object'); slices and lists are not looked into
has_valid_positional_setitem_indexer(o, indexer) ==
    LET tup == IF indexer.t = "tuple" THEN indexer.items ELSE tuplify(o, indexer)
    IN  /\ indexer.t # "missing"
        /\ \A i \in 1..Min(Len(o.axes), Len(tup)) :
               /\ ~(tup[i].t = "pos" /\ tup[i].p >= len(o.axes[i]))
               /\ tup[i].t # "missing"

\* _has_valid_setitem_indexer: only iloc checks
has_valid_setitem_indexer(name, o, indexer) ==
    name = "iloc" => has_valid_positional_setitem_indexer(o, indexer)

\* _convert_from_missing_indexer_tuple: the keys of the missing entries, the
\* other entries as they are, given to loc as a key
convert_from_missing_indexer_tuple(indexer) ==
    LET get_indexer_(idx) ==
            IF idx.t = "missing" THEN ScalarKey(idx.key)
            ELSE IF idx.t = "pos" THEN ScalarKey(I(idx.p))
            ELSE IF idx.t = "slice" THEN SliceKey(idx.a, idx.b, idx.step)
            ELSE ListKey([i \in DOMAIN idx.items |-> I(idx.items[i])])
    IN  TupleKey([i \in DOMAIN indexer.items |-> get_indexer_(indexer.items[i])])

\* _maybe_convert_ix: np.ix_ (the cross product) when every entry is a list
maybe_convert_ix(indexer) ==
    IF \A i \in DOMAIN indexer.items : indexer.items[i].t = "list"
    THEN [indexer EXCEPT !.via = "ix_"]
    ELSE indexer

\* _length_of_indexer(indexer, target) with len(target) = l
length_of_indexer(indexer, l) ==
    IF indexer.t = "slice"
    THEN LET start == IF indexer.a = None THEN 0
                      ELSE IF IntOf(indexer.a) < 0 THEN IntOf(indexer.a) + l
                      ELSE IntOf(indexer.a)
             stop == IF indexer.b = None THEN l
                     ELSE IF IntOf(indexer.b) > l THEN l
                     ELSE IF IntOf(indexer.b) < 0 THEN IntOf(indexer.b) + l
                     ELSE IntOf(indexer.b)
             step == IF indexer.step = 0 THEN 1
                     ELSE IF indexer.step < 0 THEN -indexer.step
                     ELSE indexer.step
         IN  (stop - start) \div step
    ELSE IF indexer.t \in {"list", "mask"} THEN Len(indexer.items)
    ELSE 1

\* mutant: the values of ser are taken in their own order, whatever the
\* labels of the target
align_series_unaligned(o, indexer, ser) ==
    LET \* ser.reindex(new_ix).values (ser.values when the labels are equal)
        reindex(new_ix) ==
            [ok |-> TRUE, exc |-> "", value |-> ListValue(ser.items)]
        fail(exc) == [ok |-> FALSE, exc |-> exc, value |-> ser]
        items == indexer.items
        aligners == {i \in DOMAIN items : ~is_null_slice(items[i])}
        single_aligner ==
            Cardinality(aligners) = 1 /\ (o.ndim = 2 => 1 \in aligners)
        sequence(i) == items[i].t \in {"list", "mask", "slice"}
        \* the entries at which the loop returns
        returns == {i \in DOMAIN items :
                       IF sequence(i)
                       THEN ~(single_aligner /\ is_null_slice(items[i]))
                       ELSE single_aligner /\ o.ndim = 2}
        first == CHOOSE i \in returns : \A j \in returns : i <= j
        sel == select(items[first], len(o.axes[first]))
    IN  IF indexer.t = "tuple"
        THEN IF returns = {} THEN fail("ValueError")
             ELSE IF ~sequence(first) THEN reindex(o.axes[2].labels)
             ELSE IF ~sel.ok THEN fail("IndexError")
             ELSE reindex([k \in DOMAIN sel.pos |->
                              o.axes[first].labels[sel.pos[k] + 1]])
        ELSE IF indexer.t = "pos"
        THEN IF o.ndim < 2 THEN fail("ValueError")
             ELSE reindex(o.axes[2].labels)
        ELSE fail("ValueError")

\* _align_series: the values of ser in the order of the labels the indexer
\* selects; [ok, exc, value]
align_series(o, indexer, ser) ==
    LET \* ser.reindex(new_ix).values (ser.values when the labels are equal)
        reindex(new_ix) ==
            [ok |-> TRUE, exc |-> "",
             value |-> ListValue(
                 [i \in DOMAIN new_ix |->
                     LET loc == get_loc(Axis(ser.labels, FALSE), new_ix[i])
                     IN  IF loc.ok THEN ser.items[loc.pos[1] + 1] ELSE NaN])]
        fail(exc) == [ok |-> FALSE, exc |-> exc, value |-> ser]
        items == indexer.items
        aligners == {i \in DOMAIN items : ~is_null_slice(items[i])}
        single_aligner ==
            Cardinality(aligners) = 1 /\ (o.ndim = 2 => 1 \in aligners)
        sequence(i) == items[i].t \in {"list", "mask", "slice"}
        \* the entries at which the loop returns
        returns == {i \in DOMAIN items :
                       IF sequence(i)
                       THEN ~(single_aligner /\ is_null_slice(items[i]))
                       ELSE single_aligner /\ o.ndim = 2}
        first == CHOOSE i \in returns : \A j \in returns : i <= j
        sel == select(items[first], len(o.axes[first]))
    IN  IF indexer.t = "tuple"
        THEN IF returns = {} THEN fail("ValueError")
             ELSE IF ~sequence(first) THEN reindex(o.axes[2].labels)
             ELSE IF ~sel.ok THEN fail("IndexError")
             ELSE reindex([k \in DOMAIN sel.pos |->
                              o.axes[first].labels[sel.pos[k] + 1]])
        ELSE IF indexer.t = "pos"
        THEN IF o.ndim < 2 THEN fail("ValueError")
             ELSE reindex(o.axes[2].labels)
        ELSE fail("ValueError")

\* df.reindex(idx, columns=cols).values: the cell of df under each pair of
\* labels, np.nan for a label df does not hold
frame_reindex(df, idx, cols) ==
    LET at(labels, lab) == CHOOSE j \in DOMAIN labels : LabEq(labels[j], lab)
        has(labels, lab) == \E j \in DOMAIN labels : LabEq(labels[j], lab)
    IN  BlockValue([r \in DOMAIN idx |->
                      [c \in DOMAIN cols |->
                          IF has(df.labels, idx[r]) /\ has(df.columns, cols[c])
                          THEN df.items[at(df.labels, idx[r])][at(df.columns, cols[c])]
                          ELSE NaN]])

\* _NDFrameIndexer._align_frame on a Series or a DataFrame
align_frame(o, indexer, df) ==
    LET fail(exc) == [ok |-> FALSE, exc |-> exc, value |-> df]
        sequence(i) == i.t \in {"list", "slice", "mask"}
        labels_at(ix, axis) ==
            LET sel == select(ix, len(o.axes[axis]))
            IN  [ok |-> sel.ok,
                 labels |-> [k \in DOMAIN sel.pos |->
                                o.axes[axis].labels[sel.pos[k] + 1]]]
        seqs == IF indexer.t = "tuple"
                THEN {i \in 1..Min(Len(indexer.items), o.ndim) :
                         sequence(indexer.items[i])}
                ELSE {}
        idx == labels_at(indexer.items[1], 1)
        cols == labels_at(indexer.items[2], 2)
        ax == labels_at(indexer, 1)
    IN  IF indexer.t = "tuple"
        THEN IF seqs = {1, 2}
             THEN IF ~idx.ok \/ ~cols.ok THEN fail("IndexError")
                  ELSE [ok |-> TRUE, exc |-> "",
                        value |-> frame_reindex(df, idx.labels, cols.labels)]
             ELSE fail("ValueError")
        ELSE IF sequence(indexer) /\ o.ndim = 2
        THEN IF ~ax.ok THEN fail("IndexError")
             ELSE [ok |-> TRUE, exc |-> "",
                   value |-> frame_reindex(df, ax.labels, df.columns)]
        ELSE IF indexer.t = "pos" /\ o.ndim # 2 THEN fail("IndexError")
        ELSE fail("ValueError")

\* the value taken in the order given, its labels dropped
aligned_as_given(o, indexer, value) ==
    IF value.t = "series"
    THEN [ok |-> TRUE, exc |-> "", value |-> ListValue(value.items)]
    ELSE [ok |-> TRUE, exc |-> "", value |-> value]

\* the value as the storage takes it: a Series is aligned first
aligned(o, indexer, value) ==
    IF value.t = "series" THEN align_series(o, indexer, value)
    ELSE [ok |-> TRUE, exc |-> "", value |-> value]

\* self.obj[item].index & v.index: the labels both hold, in sorted order
\* when both are sorted, otherwise in the order of the second
intersection(index, other) ==
    LET has(labels, lab) == \E j \in DOMAIN labels : LabEq(labels[j], lab)
        keep(a, b) == SelectSeq(a, LAMBDA lab : has(b, lab))
    IN  IF is_monotonic(Axis(index, FALSE)) /\ is_monotonic(Axis(other, FALSE))
        THEN keep(index, other)
        ELSE keep(other, index)

\* lines 283-293: what the split path sets the column labelled item to when
\* the value is a DataFrame
frame_column(o, df, item) ==
    LET has == \E j \in DOMAIN df.columns : LabEq(df.columns[j], item)
        both == intersection(o.axes[1].labels, df.labels)
        v == frame_reindex(df, both, <<item>>)
    IN  IF has THEN ListValue([k \in DOMAIN both |-> v.items[k][1]])
        ELSE ScalarValue(NaN)

\* setter(item, v) of the split path: the column at position c is assigned
\* through the plane indexer and put back
setter(o, c, plane_indexer, v) == assign(o, plane_indexer, PosIx(c, ""), v, FALSE)

\* for item, v in zip(labels, values): setter(item, v), from the k-th pair
\* on; r is the outcome so far, and the loop ends at a setter that raises
RECURSIVE set_items(_, _, _, _, _)
set_items(r, labels, plane_indexer, values, k) ==
    IF r.exc # "" \/ k > Len(values) THEN r
    ELSE set_items(setter(r.o, labels[k], plane_indexer, values[k]),
                   labels, plane_indexer, values, k + 1)

\* lines 216-317, the split path: sv is the aligned value, labels the
\* selected columns; each column is set through the plane indexer tup[1]
set_split(o, tup, sv, labels) ==
    LET l == Len(sv.value.items)
        can_do_equal_len ==
            /\ Len(labels.pos) = 1
            /\ (nrows(o) = l \/ length_of_indexer(tup[1], nrows(o)) = l)
    IN  IF ~sv.ok THEN Res(o, sv.exc, "align")
        ELSE IF Len(tup) < 2 \/ ~labels.ok THEN Res(o, "IndexError", "labels")
        ELSE IF sv.value.t = "frame"
        THEN set_items(Res(o, "", "set"), labels.pos, tup[1],
                       [k \in DOMAIN labels.pos |->
                           frame_column(o, sv.value,
                                        o.axes[2].labels[labels.pos[k] + 1])], 1)
        ELSE IF sv.value.t = "list" /\ can_do_equal_len
        THEN setter(o, labels.pos[1], tup[1], sv.value)
        ELSE set_items(Res(o, "", "set"), labels.pos, tup[1],
                       IF sv.value.t = "list"
                       THEN [k \in 1..Min(Len(labels.pos), l) |->
                                ScalarValue(sv.value.items[k])]
                       ELSE [k \in DOMAIN labels.pos |-> sv.value], 1)

\* lines 319-333, the other path: nv is the aligned value; the value is set
\* in one assignment
set_block(o, indexer, nv) ==
    LET rest == IF o.ndim = 1 THEN PosIx(0, "") ELSE NullSlice
    IN  IF ~nv.ok THEN Res(o, nv.exc, "align")
        ELSE IF indexer.t = "tuple"
        THEN assign(o, indexer.items[1],
                    IF Len(indexer.items) > 1 THEN indexer.items[2] ELSE rest,
                    nv.value, indexer.via = "ix_")
        ELSE assign(o, indexer, rest, nv.value, FALSE)

\* lines 207-333: align the value and set it, column by column when the
\* object is of mixed type (take_split_path)
set_values(o, indexer0, value) ==
    LET take_split_path ==
            o.mixed \/ (indexer0.t = "tuple"
                        /\ \E i \in DOMAIN o.axes : o.axes[i].multi)
        tup == IF indexer0.t = "tuple" THEN indexer0.items
               ELSE tuplify(o, indexer0)
        info_idx == IF tup[2].t = "pos" THEN ListIx(<<tup[2].p>>, "") ELSE tup[2]
        indexer == IF indexer0.t = "tuple" THEN maybe_convert_ix(indexer0)
                   ELSE indexer0
    IN  IF take_split_path
        THEN set_split(o, tup, aligned(o, TupleIx(tup), value),
                       IF Len(tup) < 2 THEN select(ListIx(<<>>, ""), 0)
                       ELSE select(info_idx, ncols(o)))
        ELSE set_block(o, indexer,
                       IF value.t = "frame" THEN align_frame(o, indexer, value)
                       ELSE aligned(o, indexer, value))

RECURSIVE setitem(_, _, _, _)
RECURSIVE setitem_with_indexer(_, _, _, _)
RECURSIVE enlarge_tuple(_, _, _, _, _, _)

\* the outcome of lines 131-206: the call is over with result r (an error,
\* or the assignment was handed on), or the object and the indexer to set
Over(r) == [over |-> TRUE, r |-> r, indexer |-> ErrIx("", "")]

ToSet(o, indexer) == [over |-> FALSE, r |-> Res(o, "", ""), indexer |-> indexer]

\* lines 140-175: the entries of a tuple indexer in turn; a missing key on
\* the info axis adds the column and sets through loc, a missing key on
\* another axis reindexes that axis and becomes the position of the key
enlarge_tuple(name, o, indexer, value, i, nindexer) ==
    LET idx == indexer.items[i]
        key == idx.key
        labels == safe_append_to_index(get_axis(o, i - 1), key)
        r == reindex_axis(o, labels, i - 1)
    IN  IF i > Len(indexer.items) THEN ToSet(o, TupleIx(nindexer))
        ELSE IF idx.t # "missing"
        THEN enlarge_tuple(name, o, indexer, value, i + 1, Append(nindexer, idx))
        ELSE IF o.ndim > 1 /\ i - 1 = 1
        THEN Over(setitem("loc", frame_setitem_nan(o, key),
                          convert_from_missing_indexer_tuple(indexer), value))
        ELSE IF r.exc # "" THEN Over(r)
        ELSE enlarge_tuple(name, r.o, indexer, value, i + 1,
                           Append(nindexer, LocIx(get_loc(labels, key))))

\* lines 131-206 of _setitem_with_indexer: the check of the indexer and the
\* enlargement for a missing key
enlarge(name, o, indexer, value) ==
    LET key == indexer.key
        r == reindex_axis(o, safe_append_to_index(get_axis(o, 0), key), 0)
    IN  IF ~has_valid_setitem_indexer(name, o, indexer)
        THEN Over(Res(o, "IndexError", "cannot enlarge"))
        ELSE IF indexer.t = "tuple"
        THEN enlarge_tuple(name, o, indexer, value, 1, <<>>)
        ELSE IF indexer.t # "missing" THEN ToSet(o, indexer)
        ELSE IF o.ndim = 1
        THEN Over(series_append(o, safe_append_to_index(get_axis(o, 0), key),
                                value))
        ELSE IF r.exc # "" THEN Over(r)
        ELSE Over(setitem(name, r.o, ScalarKey(key), value))

\* _NDFrameIndexer._setitem_with_indexer
setitem_with_indexer(name, o, indexer, value) ==
    LET e == enlarge(name, o, indexer, value)
    IN  IF e.over THEN e.r ELSE set_values(e.r.o, e.indexer, value)

\* the rest of __setitem__ (lines 92-93) for the converted key: an exception
\* of the conversion is the outcome, otherwise the indexer is set
setitem_converted(name, o, indexer, value) ==
    LET errs == IF indexer.t = "tuple"
                THEN {i \in DOMAIN indexer.items : indexer.items[i].t = "err"}
                ELSE {}
        first == CHOOSE i \in errs : \A j \in errs : i <= j
    IN  IF errs # {} THEN Res(o, indexer.items[first].exc, "resolve")
        ELSE IF indexer.t = "err" THEN Res(o, indexer.exc, "resolve")
        ELSE setitem_with_indexer(name, o, indexer, value)

\* _NDFrameIndexer.__setitem__ (the target's axes are not hierarchical)
setitem(name, o, key, value) ==
    IF key.t = "tuple" /\ Len(key.items) > o.ndim
    THEN Res(o, "IndexingError", "too many")
    ELSE setitem_converted(name, o,
                           IF key.t = "tuple" THEN convert_tuple(name, o, key, TRUE)
                           ELSE convert(name, get_axis(o, 0), key, TRUE),
                           value)

----------------------------------------------------------------------------
\* Writes to a Series or a DataFrame

\* the labels an axis of a written object may hold: 1, "a", "b"
WriteLabels == {I(1), S(1), S(2)}

\* the labels a key of a write may hold
WriteKeyLabels == WriteLabels \cup {I(0), I(2)}

\* cell (r, c) of an initial object
cell0(r, c) == 10 * r + c

WriteSeries ==
    {Series(Axis(l, FALSE), [r \in DOMAIN l |-> cell0(r, 1)]) :
        l \in SeqsUpTo(WriteLabels, MaxLen - 1)}

\* tables with unique row labels and the columns "a", "b", ...
WriteFrames ==
    {Frame(Axis(l, FALSE), Axis([c \in 1..m |-> S(c)], FALSE),
           [r \in DOMAIN l |-> [c \in 1..m |-> cell0(r, c)]], mixed) :
        l \in {s \in SeqsUpTo(WriteLabels, MaxLen - 1) :
                  s # <<>> /\ is_unique(Axis(s, FALSE))},
        m \in 1..(MaxLen - 1), mixed \in BOOLEAN}

WriteValues ==
    {ScalarValue(9), ListValue(<<8, 9>>), SeriesValue(<<S(2), S(1)>>, <<8, 9>>)}

\* keys of ix and loc: a label, a (row, column) pair, a (row, :) pair
LabelKeys ==
    {ScalarKey(l) : l \in WriteKeyLabels}
    \cup {TupleKey(<<ScalarKey(r), ScalarKey(c)>>) :
             r \in {I(1), S(2)}, c \in {S(1), S(2)}}
    \cup {TupleKey(<<ScalarKey(S(2)), SliceKey(None, None, 0)>>)}

\* keys of iloc: a position, a list of positions, a slice, a pair
PositionKeys ==
    {ScalarKey(I(p)) : p \in {-MaxLen, -1, 0, MaxLen - 1, MaxLen}}
    \cup {ListKey(<<I(0), I(1)>>), ListKey(<<I(MaxLen)>>)}
    \cup {SliceKey(I(0), I(1), 0)}
    \cup {TupleKey(<<ScalarKey(I(p)), ScalarKey(I(p))>>) : p \in {0, MaxLen - 1}}

Init ==
    /\ obj \in WriteSeries \cup WriteFrames
    /\ before = obj
    /\ call = NoCall
    /\ ret = NoRet
    /\ nwrites = 0

\* the state after a write with outcome r
Written(c, r) ==
    /\ call = NoCall
    /\ nwrites < MaxWrites
    /\ \A i \in DOMAIN r.o.axes : len(r.o.axes[i]) <= MaxLen
    /\ call' = c
    /\ ret' = IF r.exc = "" THEN Selection(<<>>, FALSE, r.sem)
              ELSE Raise(r.exc, r.sem)
    /\ before' = obj
    /\ obj' = r.o
    /\ nwrites' = nwrites + 1

\* obj.ix[key] = value
IxSetitem ==
    \E key \in LabelKeys, value \in WriteValues :
        Written(Call("setitem", "ix", key, TRUE, value),
                setitem("ix", obj, key, value))

\* obj.loc[key] = value
LocSetitem ==
    \E key \in LabelKeys, value \in WriteValues :
        Written(Call("setitem", "loc", key, TRUE, value),
                setitem("loc", obj, key, value))

\* obj.iloc[key] = value
ILocSetitem ==
    \E key \in PositionKeys, value \in WriteValues :
        Written(Call("setitem", "iloc", key, TRUE, value),
                setitem("iloc", obj, key, value))

\* obj.iloc._setitem_with_indexer({'key': k}, value)
ILocSetitemWithIndexer ==
    \E k \in {S(1), S(2)}, value \in {ScalarValue(9)} :
        Written(Call("setitem_with_indexer", "iloc", ScalarKey(k), TRUE, value),
                setitem_with_indexer("iloc", obj, MissingIx(k), value))

Next == IxSetitem \/ LocSetitem \/ ILocSetitem \/ ILocSetitemWithIndexer \/ Return

Spec == Init /\ [][Next]_vars

----------------------------------------------------------------------------
\* Reads that return objects: lists, masks and per-axis tuples as keys.
\* The axes of the objects read hold no label twice.

\* a scalar, as an object without axes
Scalar(v) == [ndim |-> 0, axes |-> <<>>, vals |-> << <<v>> >>, mixed |-> FALSE]

\* what a read returns: the object o, or the exception exc
Got(o, sem) == [ok |-> TRUE, exc |-> "", sem |-> sem, o |-> o]

Fail(exc, sem) == [ok |-> FALSE, exc |-> exc, sem |-> sem, o |-> Scalar(NaN)]

\* the entries of o at the positions pos of the axis, in the order of pos
take(o, pos, axis) ==
    LET ax == get_axis(o, axis)
        o2 == [o EXCEPT !.axes[axis + 1] =
                  Axis([i \in DOMAIN pos |-> ax.labels[pos[i] + 1]], ax.multi)]
    IN  IF axis = 0
        THEN [o2 EXCEPT !.vals = [i \in DOMAIN pos |-> o.vals[pos[i] + 1]]]
        ELSE [o2 EXCEPT !.vals =
                 [r \in 1..nrows(o) |->
                     [i \in DOMAIN pos |-> o.vals[r][pos[i] + 1]]]]

\* the entry of o at position p of the axis, that axis dropped: a cell of a
\* Series, a row or a column of a DataFrame as a Series
lower(o, p, axis) ==
    IF o.ndim = 1 THEN Scalar(o.vals[p + 1][1])
    ELSE IF axis = 0 THEN Series(get_axis(o, 1), o.vals[p + 1])
    ELSE Series(get_axis(o, 0), [r \in 1..nrows(o) |-> o.vals[r][p + 1]])

\* the object a selection along the axis stands for
selected(o, sel, axis) ==
    IF ~sel.ok THEN Fail(sel.exc, sel.sem)
    ELSE IF sel.scalar THEN Got(lower(o, sel.pos[1], axis), sel.sem)
    ELSE Got(take(o, sel.pos, axis), sel.sem)

\* obj.take(indices, axis): exc is the exception an index out of bounds is
\* raised as
take_indices(o, indices, axis, exc, sem) ==
    LET sel == select(ListIx(indices, sem), len(get_axis(o, axis)))
    IN  IF sel.ok THEN Got(take(o, sel.pos, axis), sem) ELSE Fail(exc, sem)

\* the outcome of obj.reindex_axis as the outcome of a read
reindexed(r) == IF r.exc = "" THEN Got(r.o, "reindex") ELSE Fail(r.exc, "reindex")

\* mutant: a list of integers takes positions on every axis that does not
\* hold integers only
getitem_iterable_positional(o, key, axis) ==
    LET labels == get_axis(o, axis)
        n == len(labels)
        m == check_bool_indexer(labels, key)
        ints == is_integer_dtype(key.items)
    IN  IF is_bool_indexer(key)
        THEN IF ~m.ok THEN Fail(m.exc, "mask")
             ELSE take_indices(o, nonzero(m.mask, 1), axis, "IndexError", "mask")
        ELSE IF ints /\ inferred_type(labels) # "integer"
        THEN take_indices(o, [i \in DOMAIN key.items |->
                                 IF key.items[i].n < 0 THEN n + key.items[i].n
                                 ELSE key.items[i].n], axis,
                          "IndexError", "position")
        ELSE reindexed(reindex_axis(o, Axis(key.items, FALSE), axis))

\* _NDFrameIndexer._getitem_iterable on an axis of unique labels: a mask
\* takes the positions of its true entries, a list of integers takes
\* positions unless the axis holds integers, any other list reindexes the
\* axis to its labels
getitem_iterable(o, key, axis) ==
    LET labels == get_axis(o, axis)
        ltype == inferred_type(labels)
        n == len(labels)
        m == check_bool_indexer(labels, key)
        ints == is_integer_dtype(key.items)
        keyarr == IF ints /\ ltype # "integer"
                  THEN [i \in DOMAIN key.items |->
                           IF key.items[i].n < 0 THEN I(n + key.items[i].n)
                           ELSE key.items[i]]
                  ELSE key.items
        positions ==
            /\ ints
            /\ IF ltype = "mixed-integer"
               THEN \E i \in DOMAIN keyarr : ~Contains(labels, keyarr[i])
               ELSE ltype # "integer"
    IN  IF is_bool_indexer(key)
        THEN IF ~m.ok THEN Fail(m.exc, "mask")
             ELSE take_indices(o, nonzero(m.mask, 1), axis, "IndexError", "mask")
        ELSE IF positions
        THEN take_indices(o, [i \in DOMAIN keyarr |-> keyarr[i].n], axis,
                          "IndexError", "position")
        ELSE reindexed(reindex_axis(o, Axis(keyarr, FALSE), axis))

\* _LocationIndexer._getbool_axis: an exception of take is raised as the
\* accessor's own (_exception)
getbool_axis(name, o, key, axis) ==
    LET m == check_bool_indexer(get_axis(o, axis), key)
    IN  IF ~m.ok THEN Fail(m.exc, "mask")
        ELSE take_indices(o, nonzero(m.mask, 1), axis,
                          IF name = "loc" THEN "KeyError" ELSE "IndexError",
                          "mask")

\* _getitem_axis of the accessor called name, with the object it returns:
\* lines 612-635 (ix), 1025-1041 (loc) and 1092-1107 (iloc)
read_axis(name, o, key, axis) ==
    IF name = "ix"
    THEN IF key.t \in {"list", "mask"} THEN getitem_iterable(o, key, axis)
         ELSE selected(o, getitem_axis(o, key, axis), axis)
    ELSE IF name = "loc"
    THEN IF key.t = "mask" THEN getbool_axis(name, o, key, axis)
         ELSE IF key.t = "list" THEN getitem_iterable(o, key, axis)
         ELSE selected(o, Loc_getitem_axis(o, key, axis), axis)
    ELSE IF key.t = "mask"
    THEN IF iLoc_has_valid_mask(get_axis(o, axis), key) # ""
         THEN Fail(iLoc_has_valid_mask(get_axis(o, axis), key), "invalid")
         ELSE getbool_axis(name, o, key, axis)
    ELSE IF key.t = "list"
    THEN take_indices(o, [i \in DOMAIN key.items |-> key.items[i].n], axis,
                      "IndexError", "position")
    ELSE selected(o, iLoc_getitem_axis(o, key, axis), axis)

\* obj.get_value(*key), the shortcut of ix for a tuple key: the cell under
\* a row label and a column label of a DataFrame; any other key raises
get_value(o, tup) ==
    LET r == get_loc(get_axis(o, 0), tup[1].lab)
        c == get_loc(get_axis(o, 1), tup[2].lab)
    IN  IF o.ndim = 2 /\ Len(tup) = 2 /\ tup[1].t = "scalar"
           /\ tup[2].t = "scalar" /\ r.ok /\ c.ok
        THEN Got(Scalar(o.vals[r.pos[1] + 1][c.pos[1] + 1]), "get_value")
        ELSE Fail("Exception", "get_value")

\* _has_valid_tuple: the exception raised, "" when every entry is valid;
\* ix checks nothing, loc and iloc check the entries in turn and raise
\* ValueError at an entry beyond the last axis
RECURSIVE has_valid_tuple(_, _, _, _)
has_valid_tuple(name, o, tup, i) ==
    LET k == tup[i]
        ax == get_axis(o, i - 1)
        exc == IF name = "loc" THEN Loc_has_valid_type(ax, k)
               ELSE IF is_bool_indexer(k) THEN iLoc_has_valid_mask(ax, k)
               ELSE IF iLoc_has_valid_type(k) THEN ""
               ELSE "ValueError"
    IN  IF name = "ix" \/ i > Len(tup) THEN ""
        ELSE IF i > o.ndim THEN "ValueError"
        ELSE IF exc # "" THEN exc
        ELSE has_valid_tuple(name, o, tup, i + 1)

\* _convert_for_reindex: the labels a list-like entry of a tuple selects
convert_for_reindex(ax, key) ==
    LET m == check_bool_indexer(ax, key)
        sel == select(MaskIx(m.mask), len(ax))
        pos == select(ListIx([i \in DOMAIN key.items |-> key.items[i].n], ""),
                      len(ax))
    IN  IF is_bool_indexer(key)
        THEN IF ~m.ok \/ ~sel.ok THEN [ok |-> FALSE, labels |-> <<>>]
             ELSE [ok |-> TRUE,
                   labels |-> [i \in DOMAIN sel.pos |-> ax.labels[sel.pos[i] + 1]]]
        ELSE IF is_integer_dtype(key.items) /\ ~is_integer_index(ax)
        THEN IF ~pos.ok THEN [ok |-> FALSE, labels |-> <<>>]
             ELSE [ok |-> TRUE,
                   labels |-> [i \in DOMAIN pos.pos |-> ax.labels[pos.pos[i] + 1]]]
        ELSE [ok |-> TRUE, labels |-> key.items]

\* _multi_take_opportunity: every entry is list-like
multi_take_opportunity(tup) ==
    \A i \in DOMAIN tup : tup[i].t \in {"list", "mask"}

\* _multi_take: the object reindexed to the labels of the entries, entry by
\* entry for zip(tup, o._AXIS_ORDERS) from the i-th on; an entry beyond the
\* last axis is dropped by zip; any exception is raised as _exception
RECURSIVE multi_take(_, _, _, _)
multi_take(name, o, tup, i) ==
    LET d == convert_for_reindex(get_axis(o, i - 1), tup[i])
        r == reindex_axis(o, Axis(d.labels, FALSE), i - 1)
        exception == IF name = "ix" THEN "KeyError"
                     ELSE IF name = "loc" THEN "KeyError" ELSE "IndexError"
    IN  IF i > Len(tup) \/ i > o.ndim THEN Got(o, "multi_take")
        ELSE IF ~d.ok \/ r.exc # "" THEN Fail(exception, "multi_take")
        ELSE multi_take(name, r.o, tup, i + 1)

RECURSIVE getitem(_, _, _)

\* the loop of _getitem_tuple (lines 497-504): the entries in turn from the
\* i-th on, each read along its axis from what the ones before returned;
\* ndim is the dimension of the object the tuple was given to (an object
\* lowered by an entry before has no axis for a later one)
RECURSIVE getitem_entries(_, _, _, _, _)
getitem_entries(name, ndim, retval, tup, i) ==
    IF ~retval.ok \/ i > Len(tup) THEN retval
    ELSE IF i > ndim THEN Fail("IndexingError", "too many")
    ELSE IF is_null_slice(tup[i])
    THEN getitem_entries(name, ndim, retval, tup, i + 1)
    ELSE IF i > retval.o.ndim THEN Fail("ValueError", "axis")
    ELSE getitem_entries(name, ndim, read_axis(name, retval.o, tup[i], i - 1),
                         tup, i + 1)

\* mutant: the first entry is dropped, whichever entry lowered the object
without_first(tup, i) ==
    IF Len(tup) = 2 THEN tup[2] ELSE TupleKey(Tail(tup))

\* tup[:i] + tup[i + 1:] as a key (the entry itself when one is left)
without(tup, i) ==
    LET rest == [j \in 1..(Len(tup) - 1) |-> IF j < i THEN tup[j] ELSE tup[j + 1]]
    IN  IF Len(rest) = 1 THEN rest[1] ELSE TupleKey(rest)

\* the step of _getitem_lowerdim at a label-like entry i, section being
\* what the entry reads along its axis: a scalar is returned, a section of
\* lower dimension is read with the other entries
lowered(name, o, tup, i, section) ==
    IF ~section.ok \/ section.o.ndim = 0 THEN section
    ELSE IF section.o.ndim = o.ndim
    THEN getitem(name, section.o,
                 TupleKey([tup EXCEPT ![i] = SliceKey(None, None, 0)]))
    ELSE getitem(name, section.o, without(tup, i))

RECURSIVE getitem_lowerdim(_, _, _, _)

\* mutant: no entry is taken as a label to lower the object by
getitem_lowerdim_not_applicable(name, o, tup, i) ==
    IF Len(tup) > o.ndim THEN Fail("IndexingError", "too many")
    ELSE Fail("IndexingError", "not applicable")

\* _getitem_lowerdim on an object without a hierarchical axis, from the
\* i-th entry on
getitem_lowerdim(name, o, tup, i) ==
    IF Len(tup) > o.ndim THEN Fail("IndexingError", "too many")
    ELSE IF i > Len(tup) THEN Fail("IndexingError", "not applicable")
    ELSE IF is_label_like(tup[i])
    THEN lowered(name, o, tup, i, read_axis(name, o, tup[i], i - 1))
    ELSE getitem_lowerdim(name, o, tup, i + 1)

\* the rest of _NDFrameIndexer._getitem_tuple (ix and loc) once
\* _getitem_lowerdim has returned low
getitem_tuple_rest(name, o, tup, low, invalid) ==
    IF low.ok \/ low.exc # "IndexingError" THEN low
    ELSE IF invalid # "" THEN Fail(invalid, "invalid")
    ELSE IF multi_take_opportunity(tup) THEN multi_take(name, o, tup, 1)
    ELSE getitem_entries(name, o.ndim, Got(o, ""), tup, 1)

\* _iLocIndexer._getitem_tuple once the tuple is validated: any exception of
\* _getitem_lowerdim is dropped
iLoc_getitem_tuple_rest(o, tup, low, invalid) ==
    IF invalid # "" THEN Fail(invalid, "invalid")
    ELSE IF low.ok THEN low
    ELSE getitem_entries("iloc", o.ndim, Got(o, ""), tup, 1)

\* _getitem_tuple of the accessor called name
getitem_tuple(name, o, tup) ==
    IF name = "iloc"
    THEN iLoc_getitem_tuple_rest(o, tup, getitem_lowerdim(name, o, tup, 1),
                                 has_valid_tuple(name, o, tup, 1))
    ELSE getitem_tuple_rest(name, o, tup, getitem_lowerdim(name, o, tup, 1),
                            has_valid_tuple(name, o, tup, 1))

\* __getitem__: ix tries obj.get_value(*key) on a tuple first
getitem(name, o, key) ==
    IF key.t # "tuple" THEN read_axis(name, o, key, 0)
    ELSE IF name = "ix" /\ get_value(o, key.items).ok
    THEN get_value(o, key.items)
    ELSE getitem_tuple(name, o, key.items)

----------------------------------------------------------------------------
\* Reads of a Series or a DataFrame with a list, a mask or a tuple as key

\* the labels an axis of an object read may hold: 0, 1, "a", "b"
GetLabels == {I(0), I(1), S(1), S(2)}

UniqueSeqs(X, n) == {l \in SeqsUpTo(X, n) : is_unique(Axis(l, FALSE))}

GetSeries ==
    {Series(Axis(l, FALSE), [r \in DOMAIN l |-> cell0(r, 1)]) :
        l \in UniqueSeqs(GetLabels, MaxLen)}

\* tables with the columns "a", "b", ...
GetFrames ==
    {Frame(Axis(l, FALSE), Axis([c \in 1..m |-> S(c)], FALSE),
           [r \in DOMAIN l |-> [c \in 1..m |-> cell0(r, c)]], FALSE) :
        l \in UniqueSeqs(GetLabels, MaxLen - 1) \ {<<>>}, m \in 1..(MaxLen - 1)}

\* masks without labels, of up to MaxLen entries
Masks == {MaskKey(b) : b \in SeqsUpTo(BOOLEAN, MaxLen) \ {<<>>}}

\* boolean Series of one or two entries labelled 1, "a", "b"
SeriesMasks ==
    {SeriesMaskKey(l, b) :
        l \in UniqueSeqs({I(1), S(1), S(2)}, 2) \ {<<>>},
        b \in SeqsUpTo(BOOLEAN, 2)}
    \ {k \in {SeriesMaskKey(l, b) :
                l \in UniqueSeqs({I(1), S(1), S(2)}, 2) \ {<<>>},
                b \in SeqsUpTo(BOOLEAN, 2)} : Len(k.index) # Len(k.items)}

Tuples(E, n) == {TupleKey(t) : t \in [1..n -> E]}

\* keys of ix and loc: a label (S(3) is on no axis), a list of labels or
\* positions, a mask, a tuple of two or three entries
LabelGetKeys ==
    {ScalarKey(l) : l \in GetLabels \cup {S(3)}}
    \cup {ListKey(l) : l \in SeqsUpTo({I(0), I(1), S(1), S(3)}, 2) \ {<<>>}}
    \cup Masks \cup SeriesMasks
    \cup Tuples({ScalarKey(I(0)), ScalarKey(S(1)), ScalarKey(S(3)),
                 SliceKey(None, None, 0), ListKey(<<S(1)>>),
                 ListKey(<<S(1), S(3)>>), MaskKey(<<TRUE, FALSE>>)}, 2)
    \cup Tuples({ScalarKey(I(0)), ScalarKey(S(1)), SliceKey(None, None, 0),
                 ListKey(<<S(1)>>)}, 3)

\* keys of iloc: a position, a list of positions, a mask, a tuple
PositionGetKeys ==
    {ScalarKey(I(p)) : p \in -1..MaxLen}
    \cup {ListKey(l) : l \in SeqsUpTo({I(0), I(1), I(MaxLen)}, 2) \ {<<>>}}
    \cup Masks \cup SeriesMasks
    \cup Tuples({ScalarKey(I(0)), ScalarKey(I(MaxLen)), SliceKey(None, None, 0),
                 ListKey(<<I(0)>>), MaskKey(<<TRUE, FALSE>>)}, 2)
    \cup Tuples({ScalarKey(I(0)), SliceKey(None, None, 0), ListKey(<<I(0)>>)}, 3)

InitGet ==
    /\ obj \in GetSeries \cup GetFrames
    /\ before = obj
    /\ call = NoCall
    /\ ret = NoRet
    /\ nwrites = 0

\* the state after the read c has returned r
Read(c, r) ==
    /\ call = NoCall
    /\ call' = c
    /\ ret' = r
    /\ before' = obj
    /\ UNCHANGED <<obj, nwrites>>

\* obj.ix[key]
IxGet ==
    \E key \in LabelGetKeys :
        Read(Call("get", "ix", key, FALSE, NoValue), getitem("ix", obj, key))

\* obj.loc[key]
LocGet ==
    \E key \in LabelGetKeys :
        Read(Call("get", "loc", key, FALSE, NoValue), getitem("loc", obj, key))

\* obj.iloc[key]
ILocGet ==
    \E key \in PositionGetKeys :
        Read(Call("get", "iloc", key, FALSE, NoValue), getitem("iloc", obj, key))

NextGet == IxGet \/ LocGet \/ ILocGet \/ Return

SpecGet == InitGet /\ [][NextGet]_vars

----------------------------------------------------------------------------
\* Assignments through a mask, assignments of a labelled vector, and the
\* read of what was assigned

\* assignments made to one object before it is read back
MaxSets == 1

SetSeries ==
    {Series(Axis(l, FALSE), [r \in DOMAIN l |-> cell0(r, 1)]) :
        l \in UniqueSeqs(WriteLabels, MaxLen - 1)}

\* labelled vectors: each pair assigns the same value to the same label in
\* another order; "c" is on no axis
SetVectors ==
    {SeriesValue(<<S(2), S(1)>>, <<8, 9>>), SeriesValue(<<S(1), S(2)>>, <<9, 8>>),
     SeriesValue(<<S(1), S(3)>>, <<8, 9>>), SeriesValue(<<S(3), S(1)>>, <<9, 8>>)}

\* masks for the rows of o: every mask of their length, one short mask and
\* one with a true entry beyond the end
MasksOf(o) ==
    {MaskKey(b) : b \in [1..nrows(o) -> BOOLEAN]}
    \cup {MaskKey(<<TRUE>>),
          MaskKey([i \in 1..(nrows(o) + 1) |-> i = nrows(o) + 1])}

\* selections a vector is assigned into under ix and loc: a row, a new row,
\* a column, rows of a column, a list of entries
VectorKeys ==
    {ScalarKey(S(1)), ScalarKey(S(3)),
     TupleKey(<<ScalarKey(S(1)), SliceKey(None, None, 0)>>),
     TupleKey(<<SliceKey(None, None, 0), ScalarKey(S(1))>>),
     TupleKey(<<ListKey(<<S(2), S(1)>>), ScalarKey(S(1))>>),
     ListKey(<<S(1), S(2)>>)}

\* the same under iloc
VectorPositionKeys ==
    {ScalarKey(I(0)),
     TupleKey(<<ScalarKey(I(0)), SliceKey(None, None, 0)>>),
     TupleKey(<<SliceKey(None, None, 0), ScalarKey(I(0))>>),
     TupleKey(<<ListKey(<<I(1), I(0)>>), ScalarKey(I(0))>>)}

\* the indexers _align_series is given for o
AlignIndexers(o) ==
    IF o.ndim = 1
    THEN {PosIx(0, ""), ListIx(<<0>>, ""), SliceIx(I(0), I(1), 0, "")}
    ELSE {PosIx(0, "")}
         \cup {TupleIx(<<r, c>>) :
                  r, c \in {PosIx(0, ""), NullSlice, ListIx(<<1, 0>>, ""),
                            SliceIx(I(0), I(1), 0, "")}}

InitSet ==
    /\ obj \in SetSeries \cup WriteFrames
    /\ before = obj
    /\ call = NoCall
    /\ ret = NoRet
    /\ nwrites = 0

\* the state after an assignment with outcome r
Set(c, r) ==
    /\ nwrites < MaxSets
    /\ Written(c, r)

\* obj.name[mask] = 9
MaskSetitem ==
    \E name \in {"ix", "loc", "iloc"}, key \in MasksOf(obj) :
        Set(Call("setitem", name, key, TRUE, ScalarValue(9)),
            setitem(name, obj, key, ScalarValue(9)))

\* obj.ix[key] = vector and obj.loc[key] = vector
VectorSetitem ==
    \E name \in {"ix", "loc"}, key \in VectorKeys, value \in SetVectors :
        Set(Call("setitem", name, key, TRUE, value),
            setitem(name, obj, key, value))

\* obj.iloc[key] = vector
ILocVectorSetitem ==
    \E key \in VectorPositionKeys, value \in SetVectors :
        Set(Call("setitem", "iloc", key, TRUE, value),
            setitem("iloc", obj, key, value))

\* obj.name[key] right after obj.name[key] = value has returned: before
\* stays the object the assignment was made to
ReadBack ==
    /\ call.op = "setitem" /\ ret.ok
    /\ call' = [call EXCEPT !.op = "readback"]
    /\ ret' = getitem(call.name, obj, call.key)
    /\ UNCHANGED <<obj, before, nwrites>>

\* obj.ix._align_series(indexer, ser)
AlignSeries ==
    \E indexer \in AlignIndexers(obj), ser \in SetVectors :
        /\ call = NoCall
        /\ call' = Call("align", "ix", ScalarKey(None), TRUE, ser)
        /\ ret' = align_series(obj, indexer, ser) @@ [indexer |-> indexer]
        /\ before' = obj
        /\ UNCHANGED <<obj, nwrites>>

NextSet ==
    \/ MaskSetitem \/ VectorSetitem \/ ILocVectorSetitem
    \/ ReadBack \/ AlignSeries \/ Return

SpecSet == InitSet /\ [][NextSet]_vars

----------------------------------------------------------------------------
\* Writes of unlabeled lists, one write to an object

\* lists of one cell value up to MaxLen cell values
ListValues == {ListValue([i \in 1..n |-> 6 + i]) : n \in 1..MaxLen}

\* obj.ix[key] = [...], obj.loc[key] = [...]
ListSetitem ==
    \E name \in {"ix", "loc"}, key \in LabelKeys, value \in ListValues :
        Set(Call("setitem", name, key, TRUE, value),
            setitem(name, obj, key, value))

\* obj.iloc[key] = [...]
ILocListSetitem ==
    \E key \in PositionKeys, value \in ListValues :
        Set(Call("setitem", "iloc", key, TRUE, value),
            setitem("iloc", obj, key, value))

\* Scalar access (at, iat): _ScalarAccessIndexer

\* obj.get_value(*key): the cell under one label per axis; a call with
\* another number of arguments or with a slice or a list is a TypeError
get_value_at(o, key) ==
    LET r == get_loc(get_axis(o, 0), key[1].lab)
        c == IF o.ndim = 1 THEN [ok |-> TRUE, exc |-> "", pos |-> <<0>>]
             ELSE get_loc(get_axis(o, 1), key[2].lab)
    IN  IF Len(key) # o.ndim THEN Fail("TypeError", "arguments")
        ELSE IF \E i \in DOMAIN key : key[i].t # "scalar"
        THEN Fail("TypeError", "invalid key")
        ELSE IF ~r.ok \/ ~c.ok THEN Fail("KeyError", "get_value")
        ELSE Got(Scalar(o.vals[r.pos[1] + 1][c.pos[1] + 1]), "get_value")

\* obj.set_value(*key, value): the cell under one label per axis is set; a
\* label that is missing is added through loc
set_value_at(o, key, value) ==
    LET r == get_loc(get_axis(o, 0), key[1].lab)
        c == IF o.ndim = 1 THEN [ok |-> TRUE, exc |-> "", pos |-> <<0>>]
             ELSE get_loc(get_axis(o, 1), key[2].lab)
    IN  IF Len(key) # o.ndim THEN Res(o, "TypeError", "arguments")
        ELSE IF \E i \in DOMAIN key : key[i].t # "scalar"
        THEN Res(o, "TypeError", "invalid key")
        ELSE IF ~r.ok \/ ~c.ok
        THEN setitem("loc", o, IF o.ndim = 1 THEN key[1] ELSE TupleKey(key), value)
        ELSE Res([o EXCEPT !.vals[r.pos[1] + 1][c.pos[1] + 1] = value.v],
                 "", "set_value")

\* mutant: a key longer than the axes raises ValueError
iAt_convert_key_same_length(o, key) ==
    LET n == Len(key)
        bad == {i \in 1..Min(o.ndim, n) :
                   ~(key[i].t = "scalar" /\ is_integer(key[i].lab))}
        out == {i \in 1..Min(o.ndim, n) :
                   key[i].lab.n >= len(o.axes[i]) \/ key[i].lab.n < -len(o.axes[i])}
        at(i) == IF key[i].lab.n < 0 THEN key[i].lab.n + len(o.axes[i])
                 ELSE key[i].lab.n
    IN  IF n > o.ndim \/ bad # {} THEN [ok |-> FALSE, exc |-> "ValueError", key |-> <<>>]
        ELSE IF out # {} THEN [ok |-> FALSE, exc |-> "IndexError", key |-> <<>>]
        ELSE [ok |-> TRUE, exc |-> "",
              key |-> [i \in 1..n |-> ScalarKey(o.axes[i].labels[at(i) + 1])]]

\* _iAtIndexer._convert_key: for a, i in zip(self.obj.axes, key) the label
\* a[i]; the first entry that is not an integer raises ValueError, and zip
\* ends with the shorter of the axes and the key
iAt_convert_key(o, key) ==
    LET n == Min(o.ndim, Len(key))
        bad == {i \in 1..n : ~(key[i].t = "scalar" /\ is_integer(key[i].lab))}
        out(i) == key[i].lab.n >= len(o.axes[i]) \/ key[i].lab.n < -len(o.axes[i])
        at(i) == IF key[i].lab.n < 0 THEN key[i].lab.n + len(o.axes[i])
                 ELSE key[i].lab.n
        \* the first entry that raises
        stop == {i \in 1..n : i \in bad \/ out(i)}
        first == CHOOSE i \in stop : \A j \in stop : i <= j
    IN  IF stop = {}
        THEN [ok |-> TRUE, exc |-> "",
              key |-> [i \in 1..n |-> ScalarKey(o.axes[i].labels[at(i) + 1])]]
        ELSE [ok |-> FALSE, key |-> <<>>,
              exc |-> IF first \in bad THEN "ValueError" ELSE "IndexError"]

\* _convert_key of the accessor called name: at takes the key as it is
convert_key(name, o, key) ==
    IF name = "iat" THEN iAt_convert_key(o, key)
    ELSE [ok |-> TRUE, exc |-> "", key |-> key]

\* _ScalarAccessIndexer.__getitem__
ScalarAccess_getitem(name, o, key) ==
    LET tup == IF key.t = "tuple" THEN key.items ELSE <<key>>
        ckey == convert_key(name, o, tup)
    IN  IF key.t # "tuple" /\ is_list_like(key)
        THEN Fail("ValueError", "Invalid call for scalar access")
        ELSE IF ~ckey.ok THEN Fail(ckey.exc, "convert_key")
        ELSE get_value_at(o, ckey.key)

\* _ScalarAccessIndexer.__setitem__
ScalarAccess_setitem(name, o, key, value) ==
    LET tup == IF key.t = "tuple" THEN key.items ELSE tuplify(o, key)
        ckey == convert_key(name, o, tup)
    IN  IF Len(tup) # o.ndim THEN Res(o, "ValueError", "Not enough indexers")
        ELSE IF ~ckey.ok THEN Res(o, ckey.exc, "convert_key")
        ELSE set_value_at(o, ckey.key, value)

\* the entries of the keys of at and of iat
AtEntries ==
    {ScalarKey(S(1)), ScalarKey(S(2)), SliceKey(None, None, 0), ListKey(<<S(1)>>)}

IAtEntries ==
    {ScalarKey(I(0)), ScalarKey(I(-1)), ScalarKey(S(1)), SliceKey(None, None, 0),
     ListKey(<<I(0)>>)}

\* an entry alone, a mask alone, and the tuples of up to one entry more than
\* an object of ndim axes has
ScalarAccessKeys(E, ndim) ==
    E \cup {MaskKey(<<TRUE>>)} \cup UNION {Tuples(E, n) : n \in 1..(ndim + 1)}

\* the keys of at and of iat for a Series (one axis) and a DataFrame (two)
AtKeys == [ndim \in {1, 2} |-> ScalarAccessKeys(AtEntries, ndim)]

IAtKeys == [ndim \in {1, 2} |-> ScalarAccessKeys(IAtEntries, ndim)]

\* obj.at[key], obj.iat[key]
ScalarAccessGet ==
    \E name \in {"at", "iat"} :
        \E key \in (IF name = "at" THEN AtKeys ELSE IAtKeys)[obj.ndim] :
            Read(Call("get", name, key, FALSE, NoValue),
                 ScalarAccess_getitem(name, obj, key))

\* obj.at[key] = 9, obj.iat[key] = 9
ScalarAccessSet ==
    \E name \in {"at", "iat"} :
        \E key \in (IF name = "at" THEN AtKeys ELSE IAtKeys)[obj.ndim] :
            Set(Call("setitem", name, key, TRUE, ScalarValue(9)),
                ScalarAccess_setitem(name, obj, key, ScalarValue(9)))

\* Writes of labelled tables

\* tables labelled as the targets, in another order, with a row or a column
\* less and with a row the targets lack
FrameValues ==
    {FrameValue(index, columns,
                [r \in DOMAIN index |-> [c \in DOMAIN columns |-> 50 + 10 * r + c]]) :
        index \in {<<S(1), S(2)>>, <<S(2), S(1)>>, <<S(1)>>, <<S(1), S(3)>>},
        columns \in {<<S(1), S(2)>>, <<S(2), S(1)>>, <<S(1)>>}}

\* keys of ix and loc for a table: rows and columns, rows alone, one row
FrameKeys ==
    {TupleKey(<<ListKey(<<S(1), S(2)>>), ListKey(<<S(1), S(2)>>)>>),
     TupleKey(<<SliceKey(None, None, 0), SliceKey(None, None, 0)>>),
     TupleKey(<<ListKey(<<S(2), S(1)>>), SliceKey(None, None, 0)>>),
     TupleKey(<<ScalarKey(S(1)), SliceKey(None, None, 0)>>),
     ListKey(<<S(1), S(2)>>), SliceKey(None, None, 0), ScalarKey(S(1))}

\* keys of iloc for a table
FramePositionKeys ==
    {TupleKey(<<ListKey(<<I(0), I(1)>>), ListKey(<<I(0), I(1)>>)>>),
     TupleKey(<<SliceKey(None, None, 0), SliceKey(None, None, 0)>>),
     TupleKey(<<ListKey(<<I(1), I(0)>>), SliceKey(None, None, 0)>>),
     ListKey(<<I(0), I(1)>>), SliceKey(None, None, 0), ScalarKey(I(0))}

\* obj.ix[key] = df, obj.loc[key] = df
FrameSetitem ==
    \E name \in {"ix", "loc"}, key \in FrameKeys, value \in FrameValues :
        Set(Call("setitem", name, key, TRUE, value),
            setitem(name, obj, key, value))

\* obj.iloc[key] = df
ILocFrameSetitem ==
    \E key \in FramePositionKeys, value \in FrameValues :
        Set(Call("setitem", "iloc", key, TRUE, value),
            setitem("iloc", obj, key, value))

NextShape ==
    \/ ListSetitem \/ ILocListSetitem
    \/ FrameSetitem \/ ILocFrameSetitem
    \/ ScalarAccessGet \/ ScalarAccessSet
    \/ Return

SpecShape == InitSet /\ [][NextShape]_vars

----------------------------------------------------------------------------
\* The key object across a call: lists and arrays of integers as keys

\* np.array(items) as a key: an array is an object a callee can write to
ArrayKey(items) == ListKey(items) @@ [array |-> TRUE]

is_ndarray(key) == "array" \in DOMAIN key

\* _maybe_convert_indices(indices, n): a list is copied into a new array; n
\* is added to the negative entries of the array in place, before the
\* bounds are checked. indices: the array returned, arg: the argument as
\* the caller holds it afterwards
maybe_convert_indices(indices, n) ==
    LET conv == [i \in DOMAIN indices.items |->
                    IF indices.items[i].n < 0 THEN I(indices.items[i].n + n)
                    ELSE indices.items[i]]
    IN  [exc |-> IF \E i \in DOMAIN conv : conv[i].n >= n \/ conv[i].n < 0
                 THEN "IndexError" ELSE "",
         indices |-> conv,
         arg |-> IF is_ndarray(indices) THEN [indices EXCEPT !.items = conv]
                 ELSE indices]

\* the key as the caller holds it after obj.<name>[key]: iloc hands a list
\* or array of integers as it is to take (_get_loc, line 1107), which
\* converts it with _maybe_convert_indices; ix and loc hand on the new array
\* of np.where (lines 661-674), or look the entries up as labels
key_after_getitem(name, o, key) ==
    IF name = "iloc" /\ key.t = "list" /\ is_integer_dtype(key.items)
    THEN maybe_convert_indices(key, len(get_axis(o, 0))).arg
    ELSE key

\* the key as the caller holds it after obj.<name>[key] = value: the
\* conversion makes a new array with np.where (lines 819-824) and the
\* storage takes the indexer as it is
key_after_setitem(name, o, key) == key

\* lists and arrays of one or two positions, negative ones among them
IntegerLists == SeqsUpTo({I(-1), I(0), I(1)}, 2) \ {<<>>}

ArrayKeys == {ListKey(l) : l \in IntegerLists} \cup {ArrayKey(l) : l \in IntegerLists}

\* obj.ix[key], obj.loc[key], obj.iloc[key]; ret.key is the key afterwards
KeyedGet ==
    \E name \in {"ix", "loc", "iloc"}, key \in ArrayKeys :
        Read(Call("get", name, key, FALSE, NoValue),
             getitem(name, obj, key) @@ [key |-> key_after_getitem(name, obj, key)])

\* obj.ix[key] = 9, obj.loc[key] = 9, obj.iloc[key] = 9
KeyedSet ==
    \E name \in {"ix", "loc", "iloc"}, key \in ArrayKeys :
        LET r == setitem(name, obj, key, ScalarValue(9))
        IN  /\ call = NoCall
            /\ nwrites < MaxSets
            /\ call' = Call("setitem", name, key, TRUE, ScalarValue(9))
            /\ ret' = (IF r.exc = "" THEN Got(r.o, r.sem) ELSE Fail(r.exc, r.sem))
                          @@ [key |-> key_after_setitem(name, obj, key)]
            /\ before' = obj
            /\ obj' = r.o
            /\ nwrites' = nwrites + 1

NextKey == KeyedGet \/ KeyedSet \/ Return

SpecKey == InitGet /\ [][NextKey]_vars

----------------------------------------------------------------------------
\* Claims about reads and key resolution (checked under SpecRead)

\* the axis the last call worked on, its key and the label of a scalar key
CallAxis == get_axis(before, 0)

CallKey == call.key

IsCall(op, name, t) == call.op = op /\ call.name = name /\ call.key.t = t

\* the positions of a selection are in axis order, without repetition
Ascending(pos) == \A i, j \in DOMAIN pos : i < j => pos[i] < pos[j]

\* C1: under ix, a read with an integer scalar key k on an axis of kind
\* 'integer' is resolved as the label k: it selects exactly the entries
\* labelled k, and fails with KeyError when no entry is, also when
\* 0 <= k < len(axis).
C1_IntegerAxisReadsLabel ==
    (IsCall("getitem", "ix", "scalar") /\ is_integer(CallKey.lab)
     /\ inferred_type(CallAxis) = "integer")
    => IF \E i \in DOMAIN CallAxis.labels : CallAxis.labels[i] = CallKey.lab
       THEN /\ ret.ok
            /\ ret.pos # <<>>
            /\ Ascending(ret.pos)
            /\ \A p \in 0..(len(CallAxis) - 1) :
                   (p \in SeqToSet(ret.pos))
                   <=> (CallAxis.labels[p + 1] = CallKey.lab)
       ELSE ~ret.ok /\ ret.exc = "KeyError"

\* C1 witness: label k is absent, position k exists, and the read failed
C1_Witness ==
    /\ IsCall("getitem", "ix", "scalar") /\ is_integer(CallKey.lab)
    /\ inferred_type(CallAxis) = "integer"
    /\ CallKey.lab.n >= 0 /\ CallKey.lab.n < len(CallAxis)
    /\ ~Contains(CallAxis, CallKey.lab)
    /\ ~ret.ok /\ ret.exc = "KeyError"

\* a label lookup of the scalar key is made on the axis and fails
LookupFails(ax, lab) ==
    /\ ~(is_integer(lab) /\ inferred_type(ax) # "integer")
    /\ ~Contains(ax, lab)

\* C2: for a scalar key whose label lookup fails, _convert_to_indexer fails
\* with KeyError on a read and returns the sentinel {'key': key} with the
\* original key on a write; the sentinel is returned in no other case.
C2_MissingKeyOnlyOnWrite ==
    IsCall("convert", "ix", "scalar")
    => /\ LookupFails(CallAxis, CallKey.lab)
          => IF call.setter
             THEN ret.ix.t = "missing" /\ ret.ix.key = CallKey.lab
             ELSE ret.ix.t = "err" /\ ret.ix.exc = "KeyError"
       /\ ret.ix.t = "missing"
          => call.setter /\ ~Contains(CallAxis, CallKey.lab)
             /\ ret.ix.key = CallKey.lab

\* C2 witness: a write resolved an absent label to the sentinel
C2_Witness ==
    /\ IsCall("convert", "ix", "scalar") /\ call.setter
    /\ LookupFails(CallAxis, CallKey.lab)
    /\ ret.ix.t = "missing"

\* C2 witness of the read side: the same lookup failed with KeyError
C2_WitnessRead ==
    /\ IsCall("convert", "ix", "scalar") /\ ~call.setter
    /\ LookupFails(CallAxis, CallKey.lab)
    /\ ret.ix.exc = "KeyError"

\* a write through ix or loc (checked under Spec, as all claims about writes)
LabelWrite == call.op = "setitem" /\ call.name \in {"ix", "loc"}

\* the row axis gained the label k at its end, where k occurs once, and
\* the entries it had keep their position, label and values; the other axis
\* is as it was
EnlargedBy(k) ==
    LET n == len(CallAxis)
        ax == get_axis(obj, 0)
    IN  /\ len(ax) = n + 1
        /\ ax.labels[n + 1] = k
        /\ Matches(ax.labels, k, 1) = <<n>>
        /\ \A i \in 1..n :
               ax.labels[i] = CallAxis.labels[i] /\ obj.vals[i] = before.vals[i]
        /\ obj.ndim = before.ndim
        /\ obj.ndim = 2 => obj.axes[2] = before.axes[2]

WriteCall == call.op \in {"setitem", "setitem_with_indexer"}

\* C4: an assignment that raises in its enlarge, align, assign sequence (the
\* alignment's 'Incompatible indexer', a length mismatch: ValueError) leaves
\* the object's axes and data as they were before the call.
C4_FailedWriteChangesNothing ==
    (WriteCall /\ ~ret.ok /\ ret.exc = "ValueError") => obj = before

\* a write through iloc
IlocWrite == WriteCall /\ call.name = "iloc"

\* p is no position of an axis of length n
NoPosition(p, n) == p >= n \/ p < -n

\* the key of an iloc write addresses a position that is not there
AddressesAbsentPosition ==
    \/ call.op = "setitem_with_indexer"
    \/ CallKey.t = "scalar" /\ NoPosition(CallKey.lab.n, nrows(before))
    \/ CallKey.t = "list"
       /\ \E i \in DOMAIN CallKey.items :
              NoPosition(CallKey.items[i].n, nrows(before))
    \/ CallKey.t = "tuple" /\ before.ndim = 2
       /\ \/ NoPosition(CallKey.items[1].lab.n, nrows(before))
          \/ NoPosition(CallKey.items[2].lab.n, ncols(before))

\* the call raised IndexError 'cannot enlarge its target object'
CannotEnlarge == ~ret.ok /\ ret.exc = "IndexError" /\ ret.sem = "cannot enlarge"

\* C5 as stated, of an object that is not empty: a write through iloc leaves
\* every axis as it was, and when its key addresses a position that is not on the axis (scalar, list element
\* or missing-key sentinel) it raises CannotEnlarge and changes nothing.
C5_Original ==
    (IlocWrite /\ nrows(before) > 0)
    => /\ obj.axes = before.axes
       /\ AddressesAbsentPosition => CannotEnlarge /\ obj = before

\* the indexer is the missing-key sentinel or holds, for some axis, a scalar
\* position at or past the end of that axis
PastTheEnd ==
    \/ call.op = "setitem_with_indexer"
    \/ CallKey.t = "scalar" /\ CallKey.lab.n >= nrows(before)
    \/ CallKey.t = "tuple" /\ before.ndim = 2
       /\ \/ CallKey.items[1].lab.n >= nrows(before)
          \/ CallKey.items[2].lab.n >= ncols(before)

\* C5 amended: a write through iloc leaves every axis as it was.  It raises
\* CannotEnlarge exactly when the indexer is the missing-key sentinel or holds
\* a scalar position at or past the end of its axis, and then nothing is
\* changed.  A scalar position below -len(axis) and a list with an element
\* outside the axis pass that check and reach the storage assignment; they
\* change nothing either.
C5_IlocNeverEnlarges ==
    IlocWrite
    => /\ obj.axes = before.axes
       /\ CannotEnlarge <=> PastTheEnd
       /\ ret.sem = "cannot enlarge" => CannotEnlarge /\ obj = before
       /\ AddressesAbsentPosition => obj = before

\* C5 witness: the second write of a sequence addressed the position just
\* past the end of the axis and was refused
C5_Witness ==
    /\ IlocWrite /\ call.op = "setitem" /\ nwrites = 2
    /\ CallKey.t = "scalar" /\ CallKey.lab.n = nrows(before)
    /\ CannotEnlarge /\ obj = before

\* C5 witness of the unchecked list: an element outside the axis was left to
\* the storage assignment
C5_WitnessList ==
    /\ IlocWrite /\ CallKey.t = "list"
    /\ AddressesAbsentPosition
    /\ ~ret.ok /\ ret.sem = "storage" /\ obj = before

\* both entries of the tuple key of a write to a table resolve to the
\* missing-key sentinel
BothAxesMissing ==
    /\ LabelWrite /\ CallKey.t = "tuple" /\ before.ndim = 2
    /\ CallKey.items[1].t = "scalar" /\ CallKey.items[2].t = "scalar"
    /\ LookupFails(get_axis(before, 0), CallKey.items[1].lab)
    /\ LookupFails(get_axis(before, 1), CallKey.items[2].lab)

\* C6: a write whose tuple key resolves to the missing-key sentinel on more
\* than one axis fails with CannotEnlarge and enlarges no axis.
C6_TwoMissingAxesRefused ==
    BothAxesMissing => CannotEnlarge /\ obj.axes = before.axes

\* the legacy read or resolution of an integer scalar key on an axis whose
\* kind is not 'integer'
IntKeyOnOtherAxis ==
    /\ IsCall("getitem", "ix", "scalar") \/ IsCall("convert", "ix", "scalar")
    /\ is_integer(CallKey.lab)
    /\ inferred_type(CallAxis) # "integer"

\* the key was used as a position: the resolver returned the key itself, the
\* read took the entry at that position (IndexError past the end)
UsedAsPosition ==
    IF call.op = "convert"
    THEN ret.ix.t = "pos" /\ ret.ix.p = CallKey.lab.n /\ ret.ix.via = "position"
    ELSE /\ ret.sem = "position"
         /\ IF CallKey.lab.n < len(CallAxis)
            THEN ret.ok /\ ret.pos = <<CallKey.lab.n>>
            ELSE ~ret.ok /\ ret.exc = "IndexError"

\* C7 as stated: an integer scalar key on an axis of another kind than
\* 'integer' is used as a position, without a label lookup, by the legacy
\* read and by the legacy resolver.
C7_Original == IntKeyOnOtherAxis => UsedAsPosition

\* C7 amended: the resolver (_convert_to_indexer) always returns the key as
\* a position; the read does so on a flat axis, also on a mixed-integer axis
\* holding the key as a label; on a hierarchical axis 0 the read first looks
\* the key up as a label: it returns the entries so labelled when there are
\* some, raises KeyError when there are none and level 0 is of kind integer,
\* and only otherwise uses the key as a position.
C7_IntegerKeyIsPosition ==
    IntKeyOnOtherAxis
    => IF call.op = "convert" \/ ~CallAxis.multi THEN UsedAsPosition
       ELSE IF Contains(CallAxis, CallKey.lab)
       THEN /\ ret.ok /\ ret.sem = "label"
            /\ \A p \in 0..(len(CallAxis) - 1) :
                   (p \in SeqToSet(ret.pos))
                   <=> LabEq(CallAxis.labels[p + 1], CallKey.lab)
       ELSE IF inferred_type(Axis(CallAxis.labels, FALSE)) = "integer"
       THEN ~ret.ok /\ ret.exc = "KeyError"
       ELSE UsedAsPosition

\* C7 witness: a mixed-integer axis holds the integer key as a label at
\* another position, and the resolver of a write returned the key itself
C7_Witness ==
    /\ IsCall("convert", "ix", "scalar") /\ call.setter
    /\ is_integer(CallKey.lab)
    /\ inferred_type(CallAxis) = "mixed-integer"
    /\ Contains(CallAxis, CallKey.lab)
    /\ CallKey.lab.n < len(CallAxis)
    /\ ~LabEq(CallAxis.labels[CallKey.lab.n + 1], CallKey.lab)
    /\ ret.ix.t = "pos" /\ ret.ix.p = CallKey.lab.n

\* the bounds of an iloc slice read, both given, step 1 or none
IlocSliceRead ==
    /\ IsCall("getitem", "iloc", "slice")
    /\ CallKey.a # None /\ CallKey.b # None

\* the selection is exactly the positions lo, ..., hi - 1 that exist on the
\* axis, in axis order
SelectsRange(lo, hi) ==
    /\ ret.ok
    /\ Ascending(ret.pos)
    /\ SeqToSet(ret.pos) = {p \in 0..(len(CallAxis) - 1) : lo <= p /\ p < hi}

\* C8 as stated: an iloc read with slice (s, e, 1), s and e not negative, on
\* an axis that is not empty selects the positions s, ..., e-1 that exist; bounds past the end of the
\* axis are clamped, never an error.
C8_Original ==
    (IlocSliceRead /\ len(CallAxis) > 0 /\ CallKey.a.n >= 0 /\ CallKey.b.n >= 0)
    => SelectsRange(CallKey.a.n, CallKey.b.n)

\* C8 amended: an iloc read with slice (s, e, 1) on an axis of length n
\* selects the positions s, ..., e-1 (a negative bound counted from the end,
\* stop exclusive) when -n <= s <= n-1 and -n-1 <= e <= n, and raises
\* IndexError (out-of-bounds on slice) otherwise: nothing is clamped.
C8_IlocSliceBounds ==
    IlocSliceRead
    => LET n == len(CallAxis)
           s == CallKey.a.n
           e == CallKey.b.n
       IN  IF -n <= s /\ s <= n - 1 /\ -n - 1 <= e /\ e <= n
           THEN SelectsRange(IF s < 0 THEN s + n ELSE s,
                             IF e < 0 THEN e + n ELSE e)
           ELSE ~ret.ok /\ ret.exc = "IndexError"

\* C8 witness: a slice inside the bounds selected two positions, stop excluded
C8_Witness ==
    /\ IlocSliceRead
    /\ CallKey.a.n = 1 /\ CallKey.b.n = 3
    /\ ret.ok /\ ret.pos = <<1, 2>>

\* a loc read with a slice of two labels
LocSliceRead ==
    /\ IsCall("getitem", "loc", "slice")
    /\ CallKey.a # None /\ CallKey.b # None

Labelled(p, lab) == LabEq(CallAxis.labels[p + 1], lab)

C9_WitnessAbsent ==
    /\ LocSliceRead
    /\ Contains(CallAxis, CallKey.a) /\ ~Contains(CallAxis, CallKey.b)
    /\ ~ret.ok /\ ret.exc = "KeyError"

\* a legacy slice whose given bounds are integers or integer-valued floats,
\* resolved for a write (_convert_to_indexer) or read (_get_slice_axis)
LegacyIndexSlice ==
    /\ IsCall("convert", "ix", "slice") \/ IsCall("getitem", "ix", "slice")
    /\ is_index_slice(CallKey)

\* the axis is not integer-labeled, not hierarchical and not a floating axis
\* sliced with all-float bounds
PositionSliceAxis ==
    /\ inferred_type(CallAxis) # "integer"
    /\ ~CallAxis.multi
    /\ ~(inferred_type(CallAxis) = "floating" /\ is_float_slice(CallKey))

\* the slice was given position semantics: the indexer is the key itself
AsPositionSlice ==
    /\ ret.ok
    /\ ret.sem \in {"position", "fallback"}
    /\ call.op = "convert"
       => ret.ix.t = "slice" /\ ret.ix.a = CallKey.a /\ ret.ix.b = CallKey.b
    /\ call.op = "getitem"
       => ret.pos = slice_positions(len(CallAxis), CallKey.a, CallKey.b, 0)

\* the slice was given label semantics: the indexer is what the label set's
\* slice_indexer returns
AsLabelSlice ==
    LET si == slice_indexer(CallAxis, CallKey.a, CallKey.b, CallKey.step)
    IN  /\ si.ok /\ ret.ok /\ ret.sem = "label"
        /\ call.op = "convert"
           => ret.ix.t = "slice" /\ ret.ix.a = I(si.a) /\ ret.ix.b = I(si.b)
        /\ call.op = "getitem"
           => ret.pos = slice_positions(len(CallAxis), I(si.a), I(si.b), 0)

LabelSlicingFails ==
    ~slice_indexer(CallAxis, CallKey.a, CallKey.b, CallKey.step).ok

\* on an integer-labeled axis the slice is a label slice, and a failure of
\* the label slicing is raised
IntegerAxisLabelSlice ==
    IF LabelSlicingFails THEN ~ret.ok /\ ret.exc = "KeyError"
    ELSE AsLabelSlice

\* C10 as stated: the slice is resolved as a position slice exactly when the
\* axis is not integer-labeled, not hierarchical and not a floating axis
\* sliced with all-float bounds; on an integer-labeled axis it is a label
\* slice whose failure is raised.
C10_Original ==
    LegacyIndexSlice
    => /\ AsPositionSlice <=> PositionSliceAxis
       /\ inferred_type(CallAxis) = "integer" => IntegerAxisLabelSlice

\* every given bound of the slice is a label of the axis
BoundsAreLabels ==
    /\ CallKey.a = None \/ Contains(CallAxis, CallKey.a)
    /\ CallKey.b = None \/ Contains(CallAxis, CallKey.b)

\* C10 amended: on an integer-labeled axis the slice is a label slice whose
\* failure is raised.  On an axis that is not integer-labeled, not
\* hierarchical and not floating with all-float bounds it is a position
\* slice, except on an axis of a 'mixed' kind: there it is a label slice when
\* every given bound is a label of the axis, and when one is not, KeyError on
\* a mixed-integer-float axis.  Wherever label slicing is tried on an axis
\* that is not integer-labeled and fails, the slice is used as a position
\* slice.
C10_LegacySliceClassification ==
    LegacyIndexSlice
    => IF inferred_type(CallAxis) = "integer" THEN IntegerAxisLabelSlice
       ELSE IF PositionSliceAxis /\ has_mixed(inferred_type(CallAxis))
               /\ ~BoundsAreLabels
               /\ inferred_type(CallAxis) = "mixed-integer-float"
       THEN ~ret.ok /\ ret.exc = "KeyError"
       ELSE IF PositionSliceAxis
               /\ ~(has_mixed(inferred_type(CallAxis)) /\ BoundsAreLabels)
       THEN AsPositionSlice /\ ret.sem = "position"
       ELSE IF LabelSlicingFails
       THEN AsPositionSlice /\ ret.sem = "fallback"
       ELSE AsLabelSlice

\* C10 witness: label slicing failed on an integer-labeled axis and the
\* failure was raised, although the bounds are positions of the axis
C10_Witness ==
    /\ IsCall("convert", "ix", "slice") /\ is_index_slice(CallKey)
    /\ inferred_type(CallAxis) = "integer"
    /\ CallKey.a # None /\ CallKey.b # None
    /\ 0 <= IntOf(CallKey.a) /\ IntOf(CallKey.a) < IntOf(CallKey.b)
    /\ IntOf(CallKey.b) <= len(CallAxis)
    /\ LabelSlicingFails
    /\ ~ret.ok /\ ret.exc = "KeyError"

\* C10 witness of the position slice: integer bounds on a string axis
C10_WitnessPosition ==
    /\ IsCall("convert", "ix", "slice") /\ is_index_slice(CallKey)
    /\ inferred_type(CallAxis) = "string"
    /\ ret.ok /\ ret.sem = "position"

\* a position-looking slice on a flat axis of a 'mixed' kind
MixedAxisSlice ==
    /\ LegacyIndexSlice
    /\ has_mixed(inferred_type(CallAxis))
    /\ ~CallAxis.multi

\* at least one given bound of the slice is a label of the axis
SomeBoundIsLabel ==
    \/ CallKey.a # None /\ Contains(CallAxis, CallKey.a)
    \/ CallKey.b # None /\ Contains(CallAxis, CallKey.b)

\* C11 as stated: on an axis of a 'mixed' kind a position-looking slice is
\* given label semantics (label slicing is what resolves it) when at least
\* one given bound is a label of the axis, and position semantics only when
\* no bound is.
C11_Original ==
    MixedAxisSlice
    => IF SomeBoundIsLabel THEN ret.sem \in {"label", "fallback"}
       ELSE ret.ok => ret.sem = "position"

\* C11 amended: the slice is given label semantics only when every given
\* bound is a label of the axis (and is then used as a position slice when
\* the label slicing fails); when some given bound is no label, the slice is
\* a position slice, whatever the other bound is, and on a
\* mixed-integer-float axis the failed lookup is raised (KeyError).
C11_MixedAxisSlice ==
    MixedAxisSlice
    => IF BoundsAreLabels
       THEN IF LabelSlicingFails THEN AsPositionSlice /\ ret.sem = "fallback"
            ELSE AsLabelSlice
       ELSE IF inferred_type(CallAxis) = "mixed-integer-float"
       THEN ~ret.ok /\ ret.exc = "KeyError"
       ELSE AsPositionSlice /\ ret.sem = "position"

\* C11 witness: the start bound is a label of a mixed-integer axis, the stop
\* bound is not, and the read took the slice as positions
C11_Witness ==
    /\ MixedAxisSlice /\ call.op = "getitem"
    /\ inferred_type(CallAxis) = "mixed-integer"
    /\ CallKey.a # None /\ CallKey.b # None
    /\ Contains(CallAxis, CallKey.a) /\ ~Contains(CallAxis, CallKey.b)
    /\ ret.ok /\ ret.sem = "position"
    /\ ret.pos = slice_positions(len(CallAxis), CallKey.a, CallKey.b, 0)

----------------------------------------------------------------------------
\* Claims about reads with lists, masks and tuples (checked under SpecGet)

\* the last call was obj.name[key]
GetCall(name) == call.op = "get" /\ call.name = name

\* a list that holds a label the axis does not
AbsentList(ax, key) ==
    key.t = "list" /\ \E i \in DOMAIN key.items : ~Contains(ax, key.items[i])

\* the key of a loc read is, or holds as the entry of an axis, a list with a
\* label absent from that axis
LocAbsentList ==
    /\ GetCall("loc")
    /\ IF CallKey.t = "tuple"
       THEN /\ Len(CallKey.items) <= before.ndim
            /\ \E i \in DOMAIN CallKey.items :
                   AbsentList(get_axis(before, i - 1), CallKey.items[i])
       ELSE AbsentList(CallAxis, CallKey)

\* C12: under loc, every read whose key is a list of labels with a label
\* absent from the axis fails with KeyError, as a single-axis key and as an
\* entry of a per-axis tuple key; none returns a result.
C12_LocAbsentListFails == LocAbsentList => ~ret.ok /\ ret.exc = "KeyError"

\* what the code does with the single-axis list: the read returns an entry
\* filled with np.nan under the absent label
C12_MissingFilled ==
    /\ GetCall("loc") /\ before.ndim = 1
    /\ CallKey = ListKey(<<S(1), S(3)>>)
    /\ CallAxis.labels = <<S(1), S(2)>>
    /\ ret.ok
    /\ ret.o.axes[1].labels = <<S(1), S(3)>>
    /\ ret.o.vals = << <<cell0(1, 1)>>, <<NaN>> >>

\* the positions a scalar key k addresses on the axis under the accessor
\* called name: a position under iloc, and under ix for an integer on an axis
\* that does not hold integers only; the entries labelled k otherwise
CellPositions(name, ax, k) ==
    IF name = "iloc" \/ (name = "ix" /\ is_integer(k) /\ ~is_integer_index(ax))
    THEN {p \in 0..(len(ax) - 1) :
             is_integer(k) /\ (p = k.n \/ p = k.n + len(ax))}
    ELSE {p \in 0..(len(ax) - 1) : LabEq(ax.labels[p + 1], k)}

\* a read of a DataFrame with a tuple of two scalar keys
ScalarPairRead ==
    /\ call.op = "get" /\ before.ndim = 2
    /\ CallKey.t = "tuple" /\ Len(CallKey.items) = 2
    /\ CallKey.items[1].t = "scalar" /\ CallKey.items[2].t = "scalar"

\* both entries are labels of their axes (ix then looks the cell up by them)
BothAreLabels ==
    /\ Contains(get_axis(before, 0), CallKey.items[1].lab)
    /\ Contains(get_axis(before, 1), CallKey.items[2].lab)

\* the rows and the columns the two entries address
PairRows ==
    IF call.name = "ix" /\ BothAreLabels
    THEN CellPositions("loc", get_axis(before, 0), CallKey.items[1].lab)
    ELSE CellPositions(call.name, get_axis(before, 0), CallKey.items[1].lab)

PairColumns ==
    IF call.name = "ix" /\ BothAreLabels
    THEN CellPositions("loc", get_axis(before, 1), CallKey.items[2].lab)
    ELSE CellPositions(call.name, get_axis(before, 1), CallKey.items[2].lab)

\* C16: a read of a 2-axis object with a tuple of two scalar keys, each
\* addressing one position of its axis, returns the value of that cell as a
\* scalar (an object without axes), not a vector of one entry; when an entry
\* addresses no position the read fails.
C16_ScalarPairReadsCell ==
    ScalarPairRead
    => IF PairRows # {} /\ PairColumns # {}
       THEN /\ ret.ok
            /\ \E r \in PairRows, c \in PairColumns :
                   ret.o = Scalar(before.vals[r + 1][c + 1])
       ELSE ~ret.ok

\* the cell is reached by lowering: ix with a position for the row
C16_Witness ==
    /\ ScalarPairRead /\ call.name = "ix"
    /\ CallKey.items[1].lab = I(0) /\ CallKey.items[2].lab = S(1)
    /\ get_axis(before, 0).labels = <<S(2), S(1)>>
    /\ ncols(before) = 2
    /\ ret.ok /\ ret.sem # "get_value"
    /\ ret.o = Scalar(cell0(1, 1))

\* a read whose tuple key has more entries than the object has axes
TooLongTupleRead ==
    /\ call.op = "get"
    /\ CallKey.t = "tuple" /\ Len(CallKey.items) > before.ndim

\* C17: every read whose tuple key has more entries than the object has
\* dimensions fails with the error for too many indexers (IndexingError, or
\* the ValueError 'Too many indexers' of loc and iloc), whatever the entries
\* are; none returns a value.
C17_TooManyIndexersFail ==
    TooLongTupleRead
    => ~ret.ok /\ ret.exc \in {"IndexingError", "ValueError"}

\* what the code does when every entry is a list: ix returns the object
\* reindexed to the first list, the second is dropped
C17_ReturnsValue ==
    /\ TooLongTupleRead /\ call.name = "ix" /\ before.ndim = 1
    /\ CallKey = TupleKey(<<ListKey(<<S(1)>>), ListKey(<<S(1), S(3)>>)>>)
    /\ CallAxis.labels = <<S(2), S(1)>>
    /\ ret.ok
    /\ ret.o = Series(Axis(<<S(1)>>, FALSE), <<cell0(2, 1)>>)

\* a read along axis 0 under ix or loc whose key is a boolean Series
LabelledMaskRead ==
    /\ call.op = "get" /\ call.name \in {"ix", "loc"}
    /\ CallKey.t = "mask" /\ CallKey.labelled

\* every label of the axis labels an entry of the mask
MaskCoversAxis ==
    \A i \in DOMAIN CallAxis.labels :
        \E j \in DOMAIN CallKey.index : LabEq(CallKey.index[j], CallAxis.labels[i])

\* the entry of the mask under the label of position p of the axis
MaskEntryAt(p) ==
    \E j \in DOMAIN CallKey.index :
        LabEq(CallKey.index[j], CallAxis.labels[p + 1]) /\ CallKey.items[j]

\* the read returned the entries of the axis under which the mask is true
SelectsByLabel ==
    /\ ret.ok
    /\ ret.o = take(before,
                    nonzero([i \in DOMAIN CallAxis.labels |-> MaskEntryAt(i - 1)], 1),
                    0)

\* C18 as stated: a mask whose labels differ from the labels of the axis
\* (in content or in order) makes the read fail with IndexingError.
C18_Original ==
    (LabelledMaskRead /\ ~index_equals(CallKey.index, CallAxis.labels))
    => ~ret.ok /\ ret.exc = "IndexingError"

\* C18: a boolean mask with its own labels is aligned with the axis by
\* label: the read selects the entries of the axis whose label has a true
\* entry in the mask, whatever the order of the mask's labels and whatever
\* other labels the mask holds, and fails with IndexingError exactly when a
\* label of the axis labels no entry of the mask.
C18_LabelledMaskAligned ==
    LabelledMaskRead
    => IF MaskCoversAxis THEN SelectsByLabel
       ELSE ~ret.ok /\ ret.exc = "IndexingError"

\* a mask with the labels of the axis in another order selects by label
C18_Witness ==
    /\ LabelledMaskRead /\ call.name = "ix" /\ before.ndim = 1
    /\ CallAxis.labels = <<S(1), S(2)>>
    /\ CallKey = SeriesMaskKey(<<S(2), S(1)>>, <<TRUE, FALSE>>)
    /\ ret.ok
    /\ ret.o = Series(Axis(<<S(2)>>, FALSE), <<cell0(2, 1)>>)

\* a mask without an entry for a label of the axis is refused
C18_WitnessUnalignable ==
    /\ LabelledMaskRead /\ call.name = "loc"
    /\ CallAxis.labels = <<S(1), S(2)>>
    /\ CallKey = SeriesMaskKey(<<S(1)>>, <<TRUE>>)
    /\ ~ret.ok /\ ret.exc = "IndexingError"

\* a read along axis 0 whose key is a mask without labels
MaskRead ==
    /\ call.op = "get" /\ CallKey.t = "mask" /\ ~CallKey.labelled

\* C19: a mask without labels that is shorter or longer than the axis it
\* indexes is refused with an error; it is not converted to positions.
C19_MaskLengthValidated ==
    (MaskRead /\ Len(CallKey.items) # len(CallAxis)) => ~ret.ok

\* what the code does with a mask that is too short: the entries under its
\* true positions are returned
C19_ShortMaskSelects ==
    /\ MaskRead /\ call.name = "ix" /\ before.ndim = 1
    /\ CallAxis.labels = <<S(1), S(2)>>
    /\ CallKey = MaskKey(<<TRUE>>)
    /\ ret.ok
    /\ ret.o = Series(Axis(<<S(1)>>, FALSE), <<cell0(1, 1)>>)

\* a read along axis 0 under iloc whose key is a mask
IlocMaskRead == call.op = "get" /\ call.name = "iloc" /\ CallKey.t = "mask"

\* C20 as stated: under iloc a mask is refused exactly when the target axis
\* holds integers only.
C20_Original == IlocMaskRead => (~ret.ok <=> is_integer_index(CallAxis))

\* C20: under iloc a mask is refused exactly when it carries labels of its
\* own, with NotImplementedError when those labels are integers and with
\* ValueError otherwise; a mask without labels is accepted on every kind of
\* target axis and selects the positions of its true entries (IndexError
\* when a true entry lies beyond the axis).
C20_IlocMaskByOwnLabels ==
    IlocMaskRead
    => IF CallKey.labelled
       THEN /\ ~ret.ok
            /\ ret.exc = IF \A i \in DOMAIN CallKey.index : is_integer(CallKey.index[i])
                         THEN "NotImplementedError"
                         ELSE "ValueError"
       ELSE IF \E i \in DOMAIN CallKey.items : CallKey.items[i] /\ i > len(CallAxis)
       THEN ~ret.ok /\ ret.exc = "IndexError"
       ELSE ret.ok /\ ret.o = take(before, nonzero(CallKey.items, 1), 0)

\* a mask without labels is accepted on an axis of integers
C20_Witness ==
    /\ IlocMaskRead /\ before.ndim = 1
    /\ CallAxis.labels = <<I(0), I(1)>>
    /\ CallKey = MaskKey(<<FALSE, TRUE>>)
    /\ ret.ok
    /\ ret.o = Series(Axis(<<I(1)>>, FALSE), <<cell0(2, 1)>>)

\* a mask labelled like the axis of strings it indexes is refused
C20_WitnessLabelled ==
    /\ IlocMaskRead
    /\ CallAxis.labels = <<S(1), S(2)>>
    /\ CallKey = SeriesMaskKey(<<S(1), S(2)>>, <<FALSE, TRUE>>)
    /\ ~ret.ok /\ ret.exc = "ValueError"

----------------------------------------------------------------------------
\* Claims about assignments through masks and of labelled vectors (checked
\* under SpecSet)

\* the last call assigned a scalar through a mask without labels
MaskWrite ==
    /\ call.op = "setitem"
    /\ CallKey.t = "mask" /\ ~CallKey.labelled
    /\ call.value.t = "scalar"

\* the mask is true at row r (1-based)
MaskTrueAt(r) == r <= Len(CallKey.items) /\ CallKey.items[r]

\* C13: assigning a scalar v through a boolean mask sets exactly the
\* positions of axis 0 at which the mask is true to v and leaves every other
\* position and the labels of the axes unchanged; as many positions change as
\* the mask has true entries.  A mask as long as the axis is always
\* assigned through; an assignment that fails changes nothing.
C13_MaskAssignsTrueEntries ==
    MaskWrite
    => /\ obj.axes = before.axes
       /\ Len(CallKey.items) = nrows(before) => ret.ok
       /\ IF ret.ok
          THEN \A r \in 1..nrows(before), c \in 1..ncols(before) :
                   obj.vals[r][c] = IF MaskTrueAt(r) THEN call.value.v
                                    ELSE before.vals[r][c]
          ELSE obj = before
       /\ (/\ ret.ok
           /\ \A r \in 1..nrows(before), c \in 1..ncols(before) :
                  before.vals[r][c] # call.value.v)
          => Cardinality({r \in 1..nrows(before) : obj.vals[r] # before.vals[r]})
             = Cardinality({i \in DOMAIN CallKey.items : CallKey.items[i]})

\* a mask with one true entry out of two changes that row of a table only
C13_Witness ==
    /\ MaskWrite /\ call.name = "ix" /\ before.ndim = 2
    /\ CallKey = MaskKey(<<FALSE, TRUE>>)
    /\ nrows(before) = 2 /\ ncols(before) = 2
    /\ ret.ok
    /\ obj.vals[1] = before.vals[1]
    /\ obj.vals[2] = <<9, 9>>
    /\ before.vals[2] # <<9, 9>>

\* the last call was obj.ix._align_series(ret.indexer, call.value)
AlignCall == call.op = "align"

\* the labels at the positions pos of an axis
LabelsAt(ax, pos) == [k \in DOMAIN pos |-> ax.labels[pos[k] + 1]]

\* the target labels of the alignment: the columns for a single row, else
\* the rows a list or a slice selects, else the columns one selects
AlignTarget ==
    LET ix == ret.indexer
        r == ix.items[1]
        c == ix.items[2]
        rows == select(r, nrows(before))
        cols == select(c, ncols(before))
        none == [ok |-> FALSE, labels |-> <<>>]
    IN  IF before.ndim = 1 THEN none
        ELSE IF ix.t = "pos"
        THEN [ok |-> TRUE, labels |-> get_axis(before, 1).labels]
        ELSE IF r.t \in {"list", "slice"}
        THEN IF rows.ok
             THEN [ok |-> TRUE, labels |-> LabelsAt(get_axis(before, 0), rows.pos)]
             ELSE none
        ELSE IF c.t \in {"list", "slice"}
        THEN IF cols.ok
             THEN [ok |-> TRUE, labels |-> LabelsAt(get_axis(before, 1), cols.pos)]
             ELSE none
        ELSE none

\* the entry of the vector ser under the label lab, np.nan when it has none
Joined(ser, lab) ==
    IF \E j \in DOMAIN ser.labels : LabEq(ser.labels[j], lab)
    THEN ser.items[CHOOSE j \in DOMAIN ser.labels : LabEq(ser.labels[j], lab)]
    ELSE NaN

\* C14: aligning a labelled vector with a selection of a table is a left
\* join of the target labels onto the vector: the result has one entry per
\* target label in the order of the target; the entry is the vector's value
\* under that label, or the missing fill when the vector has no such label;
\* entries of the vector under other labels are dropped; a vector labelled
\* with the target labels in their order is used as it is.
C14_AlignIsLeftJoin ==
    AlignCall
    => /\ ret.ok <=> AlignTarget.ok
       /\ ret.ok =>
            /\ Len(ret.value.items) = Len(AlignTarget.labels)
            /\ \A k \in DOMAIN AlignTarget.labels :
                   ret.value.items[k] = Joined(call.value, AlignTarget.labels[k])
            /\ index_equals(call.value.labels, AlignTarget.labels)
               => ret.value.items = call.value.items

\* a vector labelled "a", "c" aligned with a row of the columns "a", "b":
\* "b" is filled, "c" is dropped
C14_Witness ==
    /\ AlignCall
    /\ ret.indexer = TupleIx(<<PosIx(0, ""), NullSlice>>)
    /\ get_axis(before, 1).labels = <<S(1), S(2)>>
    /\ call.value = SeriesValue(<<S(3), S(1)>>, <<9, 8>>)
    /\ ret.ok
    /\ ret.value.items = <<8, NaN>>

\* a vector labelled like the target is used unchanged
C14_WitnessEqual ==
    /\ AlignCall
    /\ ret.indexer = TupleIx(<<NullSlice, PosIx(0, "")>>)
    /\ get_axis(before, 0).labels = <<S(2), S(1)>>
    /\ call.value = SeriesValue(<<S(2), S(1)>>, <<8, 9>>)
    /\ ret.ok
    /\ ret.value.items = <<8, 9>>

\* the last call read back, with the same key, the selection a labelled
\* vector was assigned into
VectorReadBack == call.op = "readback" /\ call.value.t = "series"

\* the vector with its entries in the opposite order
Reversed(ser) ==
    SeriesValue([i \in DOMAIN ser.labels |-> ser.labels[Len(ser.labels) + 1 - i]],
                [i \in DOMAIN ser.items |-> ser.items[Len(ser.items) + 1 - i]])

\* C15: after a labelled vector was assigned into a selection, the read of
\* the same selection with the same key succeeds; when it returns a vector,
\* its labels are labels of one axis of the target and every entry of it is
\* the assigned vector's value under the entry's label,
\* or the missing fill where the assigned vector has no such label; and the
\* assignment of the same vector in another label order leaves the same
\* object.
C15_RoundTrip ==
    VectorReadBack
    => /\ ret.ok
       /\ ret.o.ndim = 1 =>
              /\ \E a \in DOMAIN obj.axes :
                     \A k \in DOMAIN ret.o.axes[1].labels :
                         \E j \in DOMAIN obj.axes[a].labels :
                             obj.axes[a].labels[j] = ret.o.axes[1].labels[k]
              /\ \A k \in DOMAIN ret.o.axes[1].labels :
                     ret.o.vals[k][1]
                         = Joined(call.value, ret.o.axes[1].labels[k])
       /\ setitem(call.name, before, CallKey, Reversed(call.value)).o = obj

\* a vector labelled "c", "a" assigned to the row "a" of the columns "a",
\* "b" and read back
C15_Witness ==
    /\ VectorReadBack /\ call.name = "loc"
    /\ CallKey = ScalarKey(S(1))
    /\ get_axis(before, 1).labels = <<S(1), S(2)>>
    /\ call.value = SeriesValue(<<S(3), S(1)>>, <<9, 8>>)
    /\ ret.ok
    /\ ret.o = Series(Axis(<<S(1), S(2)>>, FALSE), <<8, NaN>>)

----------------------------------------------------------------------------
\* Slices with a step: the read and the write path of ix (SpecSlice), and
\* the length of a slice indexer (SpecLength)

SliceAxisLabels == {I(1), I(2), S(1), F(2)}

SliceAxes ==
    {Axis(l, m) : l \in SeqsUpTo(SliceAxisLabels, MaxLen), m \in BOOLEAN}
    \ {Axis(<<>>, TRUE)}

\* no step, and the steps 1, 2 and -1
Steps == {0, 1, 2, -1}

SteppedSlices ==
    {SliceKey(a, b, s) : a, b \in KeyLabels \cup {None}, s \in Steps}

SteppedPositionSlices ==
    {SliceKey(a, b, s) : a, b \in Positions \cup {None}, s \in Steps}

InitSlice ==
    /\ obj \in {Series(ax, [r \in DOMAIN ax.labels |-> r - 1]) : ax \in SliceAxes}
    /\ before = obj
    /\ call = NoCall
    /\ ret = NoRet
    /\ nwrites = 0

\* obj.ix[start:stop:step]
SliceGetitem ==
    \E key \in SteppedSlices :
        /\ call = NoCall
        /\ call' = Call("getitem", "ix", key, FALSE, NoValue)
        /\ ret' = getitem_axis(obj, key, 0)
        /\ before' = obj
        /\ UNCHANGED <<obj, nwrites>>

\* obj.ix._convert_to_indexer(slice(start, stop, step), axis=0, is_setter=True)
SliceConvert ==
    \E key \in SteppedSlices :
        /\ call = NoCall
        /\ call' = Call("convert", "ix", key, TRUE, NoValue)
        /\ ret' = Resolved(convert_to_indexer(get_axis(obj, 0), key, TRUE))
        /\ before' = obj
        /\ UNCHANGED <<obj, nwrites>>

\* _length_of_indexer(slice(start, stop, step), obj.index)
LengthOfIndexer ==
    \E key \in SteppedPositionSlices :
        /\ call = NoCall
        /\ call' = Call("length", "", key, FALSE, NoValue)
        /\ ret' = Selection(<<>>, TRUE, "length")
                   @@ [len |-> length_of_indexer(
                                   SliceIx(key.a, key.b, key.step, "position"),
                                   nrows(obj))]
        /\ before' = obj
        /\ UNCHANGED <<obj, nwrites>>

NextSlice == SliceGetitem \/ SliceConvert \/ Return

SpecSlice == InitSlice /\ [][NextSlice]_vars

\* the lengths of slice indexers on axes of 0 to MaxLen entries
InitLength ==
    /\ obj \in {Series(Axis([i \in 1..n |-> I(i)], FALSE), [r \in 1..n |-> r - 1]) :
                 n \in 0..MaxLen}
    /\ before = obj
    /\ call = NoCall
    /\ ret = NoRet
    /\ nwrites = 0

NextLength == LengthOfIndexer \/ Return

SpecLength == InitLength /\ [][NextLength]_vars

----------------------------------------------------------------------------
\* Claims about the lowering of tuple keys (checked under SpecGet)

\* the last call read a table with a key of one entry per axis of which one
\* at least is label-like, and was not answered by the get_value shortcut
\* of ix
LoweringRead ==
    /\ call.op = "get" /\ call.name \in {"ix", "loc", "iloc"}
    /\ ret.sem # "get_value"
    /\ CallKey.t = "tuple" /\ obj.ndim = 2
    /\ Len(CallKey.items) = 2
    /\ \E i \in 1..2 : is_label_like(CallKey.items[i])

\* the first axis, in increasing order, whose entry is label-like
FirstLabelLike ==
    CHOOSE i \in 1..2 :
        /\ is_label_like(CallKey.items[i])
        /\ \A j \in 1..(i - 1) : ~is_label_like(CallKey.items[j])

\* the section along the first label-like axis, then the other entry of the
\* key applied to the section
SectionThenRest ==
    LET i == FirstLabelLike
        section == read_axis(call.name, obj, CallKey.items[i], i - 1)
    IN  IF ~section.ok THEN section
        ELSE getitem(call.name, section.o, CallKey.items[3 - i])

\* C23: a read of a table with a tuple key that has a label-like entry
\* returns what reading the section along the first label-like axis and
\* then applying the other entry to that section returns, and raises
\* exactly when that raises.
C23_LoweredThenRest ==
    LoweringRead
    => /\ ret.ok = SectionThenRest.ok
       /\ ret.ok => ret.o = SectionThenRest.o

\* a column read by its label, its rows picked by a list
C23_Witness ==
    /\ LoweringRead /\ call.name = "loc" /\ FirstLabelLike = 2
    /\ CallKey.items[1].t = "list" /\ Len(CallKey.items[1].items) = 2
    /\ ret.ok /\ ret.o.ndim = 1 /\ Len(ret.o.vals) = 2

\* a row read by its label, its columns picked by a list
C23_WitnessRow ==
    /\ LoweringRead /\ call.name = "ix" /\ FirstLabelLike = 1
    /\ CallKey.items[2].t = "list"
    /\ ret.ok /\ ret.o.ndim = 1

----------------------------------------------------------------------------
\* Claims about assignments of lists and tables and about scalar access
\* (checked under SpecShape)

\* every label of the object is a string: a position is never a label
StringLabelled(o) ==
    \A a \in DOMAIN o.axes :
        \A i \in DOMAIN o.axes[a].labels : o.axes[a].labels[i].k = "s"

\* the last call assigned an unlabeled list, to an object whose labels are
\* strings, and raised nothing
ListWrite ==
    /\ call.op = "setitem" /\ call.value.t = "list" /\ ret.ok
    /\ StringLabelled(before)

\* the cell values of an object
Cells(o) == {o.vals[r][c] : r \in DOMAIN o.vals, c \in 1..Len(o.vals[1])}

\* C21: an assignment of an unlabeled list that raises nothing has assigned
\* the whole list to the whole selection: every cell the key selects holds
\* an entry of the list afterwards, and every entry of the list is held by a
\* cell of the selection (no entry of the list was dropped, no selected
\* column was left as it was).
C21_ListFillsSelection ==
    ListWrite
    => LET sel == getitem(call.name, obj, CallKey)
           items == {call.value.items[i] : i \in DOMAIN call.value.items}
       IN  sel.ok => (sel.o.vals # <<>> => Cells(sel.o) = items)

\* a list of one entry assigned to the row "a" of a table of mixed type with
\* the columns "a", "b": only the column "a" is assigned
C21_PrefixAssigned ==
    /\ ListWrite /\ call.name = "loc" /\ CallKey = ScalarKey(S(1))
    /\ before.mixed /\ get_axis(before, 1).labels = <<S(1), S(2)>>
    /\ call.value = ListValue(<<7>>)
    /\ obj.vals[1] = <<7, 12>>

\* the last call was made through at or iat
ScalarAccessCall == call.name \in {"at", "iat"}

\* the number of entries of the key, a key that is no tuple counting as one
KeyLen == IF CallKey.t = "tuple" THEN Len(CallKey.items) ELSE 1

\* every entry of the key is a scalar
ScalarEntries ==
    IF CallKey.t = "tuple"
    THEN \A i \in DOMAIN CallKey.items : CallKey.items[i].t = "scalar"
    ELSE CallKey.t = "scalar"

\* C22: a get or set through at or iat whose key has not exactly one scalar
\* entry per axis raises and leaves the object as it was.
C22_ScalarAccessKeyChecked ==
    ScalarAccessCall /\ (KeyLen # before.ndim \/ ~ScalarEntries)
    => ~ret.ok /\ obj = before

\* a cell of a table read through iat with a key of three positions
C22_LongKeyRead ==
    /\ ScalarAccessCall /\ call.op = "get" /\ call.name = "iat"
    /\ before.ndim = 2 /\ KeyLen = 3 /\ ScalarEntries
    /\ ret.ok /\ ret.o = Scalar(before.vals[1][1])

\* the last call assigned a labelled table, to a table whose labels are
\* strings, and raised nothing
FrameWrite ==
    /\ call.op = "setitem" /\ call.value.t = "frame" /\ ret.ok
    /\ before.ndim = 2 /\ StringLabelled(before)

\* the cell of df under the row label and the column label, the missing
\* fill when df lacks one of them
JoinedCell(df, row, col) ==
    IF /\ \E j \in DOMAIN df.labels : LabEq(df.labels[j], row)
       /\ \E j \in DOMAIN df.columns : LabEq(df.columns[j], col)
    THEN df.items[CHOOSE j \in DOMAIN df.labels : LabEq(df.labels[j], row)]
                 [CHOOSE j \in DOMAIN df.columns : LabEq(df.columns[j], col)]
    ELSE NaN

\* C24: after an assignment of a labelled table that raises nothing, every
\* cell of the selection (read back with the same key as a table) holds the
\* assigned table's cell under the same row label and column label, or the
\* missing fill where the assigned table lacks the row or the column.
C24_FrameLeftJoined ==
    FrameWrite
    => LET sel == getitem(call.name, obj, CallKey)
       IN  sel.ok /\ sel.o.ndim = 2
           => \A r \in DOMAIN sel.o.vals : \A c \in DOMAIN sel.o.vals[r] :
                  sel.o.vals[r][c]
                      = JoinedCell(call.value, sel.o.axes[1].labels[r],
                                   sel.o.axes[2].labels[c])

\* a table whose columns are "b", "a" assigned to all rows of a table of one
\* type whose columns are "a", "b": the cells are taken by position
C24_ColumnsNotAligned ==
    /\ FrameWrite /\ call.name = "loc" /\ CallKey = SliceKey(None, None, 0)
    /\ ~before.mixed
    /\ before.axes[1].labels = <<S(1), S(2)>>
    /\ before.axes[2].labels = <<S(1), S(2)>>
    /\ call.value.labels = <<S(1), S(2)>>
    /\ call.value.columns = <<S(2), S(1)>>
    /\ obj.vals = call.value.items

----------------------------------------------------------------------------
\* Claims about the key object (checked under SpecKey)

\* the last call was a read or a write with a list or an array as key
KeyedCall == call.op \in {"get", "setitem"} /\ CallKey.t = "list"

\* C25: after a read or a write, the list or array given as key holds the
\* entries it held before the call.
C25_KeyUnchanged == KeyedCall => ret.key = CallKey

\* an array with a negative position read through iloc holds another entry
\* afterwards
C25_ArrayWritten ==
    /\ KeyedCall /\ call.op = "get" /\ call.name = "iloc"
    /\ CallKey = ArrayKey(<<I(-1), I(0)>>)
    /\ nrows(obj) = 2
    /\ ret.ok /\ ret.key.items = <<I(1), I(0)>>

----------------------------------------------------------------------------
\* Claims about lists of integers as keys of ix (checked under SpecKey)

\* the last call read or wrote through ix with a list of integers
IntegerListCall == KeyedCall /\ call.name = "ix" /\ is_integer_dtype(CallKey.items)

\* the entries of the key as positions on the axis, a negative entry
\* counted from the end
Translated(ax) ==
    [i \in DOMAIN CallKey.items |->
        IF CallKey.items[i].n < 0 THEN CallKey.items[i].n + len(ax)
        ELSE CallKey.items[i].n]

InBounds(ax) ==
    \A i \in DOMAIN CallKey.items : Translated(ax)[i] \in 0..(len(ax) - 1)

\* the rows of o at the positions pos set to v
RowsSet(o, pos, v) ==
    [o EXCEPT !.vals =
        [r \in DOMAIN o.vals |->
            IF \E i \in DOMAIN pos : pos[i] = r - 1
            THEN [c \in DOMAIN o.vals[r] |-> v]
            ELSE o.vals[r]]]

\* the read took the entries as positions
ReadAsPositions ==
    IF InBounds(obj.axes[1])
    THEN ret.ok /\ ret.o = take(obj, Translated(obj.axes[1]), 0)
    ELSE ~ret.ok

\* the read looked the labels up
ReadAsLabels(labels) ==
    ret.ok /\ ret.o = reindex_axis(obj, Axis(labels, FALSE), 0).o

\* the write took the entries as positions
WrittenAsPositions ==
    IF InBounds(before.axes[1])
    THEN ret.ok /\ obj = RowsSet(before, Translated(before.axes[1]), call.value.v)
    ELSE ~ret.ok /\ obj = before

\* the write looked the entries up as labels
WrittenAsLabels ==
    IF \A i \in DOMAIN CallKey.items : Contains(before.axes[1], CallKey.items[i])
    THEN ret.ok
         /\ obj = RowsSet(before,
                          [i \in DOMAIN CallKey.items |->
                              get_loc(before.axes[1], CallKey.items[i]).pos[1]],
                          call.value.v)
    ELSE ~ret.ok /\ obj = before

\* every translated entry of the key is a label of the axis
AllAreLabels(ax) ==
    \A i \in DOMAIN CallKey.items : Contains(ax, I(Translated(ax)[i]))

\* C26 as stated: on an axis that does not hold integers only, a list of
\* integers is taken as positions by the read and by the write, a negative
\* entry counted from the end; on an axis of integers the entries are
\* looked up as labels.
C26_Original ==
    IntegerListCall
    => IF call.op = "get"
       THEN IF inferred_type(obj.axes[1]) = "integer"
            THEN ReadAsLabels(CallKey.items)
            ELSE ReadAsPositions
       ELSE IF inferred_type(before.axes[1]) = "integer"
            THEN WrittenAsLabels
            ELSE WrittenAsPositions

\* C26, amended: as stated for the write; the read takes the entries as
\* positions on an axis that does not hold integers only, except on a
\* 'mixed-integer' axis when every translated entry is a label of the axis:
\* then the translated entries are looked up as labels. On an axis of
\* integers the read and the write look the entries up as labels.
C26_IntegerListResolved ==
    IntegerListCall
    => IF call.op = "get"
       THEN IF inferred_type(obj.axes[1]) = "integer"
            THEN ReadAsLabels(CallKey.items)
            ELSE IF inferred_type(obj.axes[1]) = "mixed-integer"
                    /\ AllAreLabels(obj.axes[1])
            THEN ReadAsLabels([i \in DOMAIN CallKey.items |->
                                  I(Translated(obj.axes[1])[i])])
            ELSE ReadAsPositions
       ELSE IF inferred_type(before.axes[1]) = "integer"
            THEN WrittenAsLabels
            ELSE WrittenAsPositions

\* the rows of a string-labelled object read by the positions -1, 0
C26_Witness ==
    /\ IntegerListCall /\ call.op = "get"
    /\ CallKey.items = <<I(-1), I(0)>>
    /\ obj.axes[1].labels = <<S(1), S(2)>>
    /\ ret.ok /\ ret.o.axes[1].labels = <<S(2), S(1)>>

\* the label 1 read on the axis 1, "a" with the list of the position -1
C26_WitnessMixed ==
    /\ IntegerListCall /\ call.op = "get"
    /\ CallKey.items = <<I(-1)>>
    /\ obj.axes[1].labels = <<I(1), S(1)>>
    /\ ret.ok /\ ret.o.axes[1].labels = <<I(1)>>

\* a row written by the position -1
C26_WitnessWrite ==
    /\ IntegerListCall /\ call.op = "setitem"
    /\ CallKey.items = <<I(-1)>>
    /\ before.axes[1].labels = <<I(1), S(1)>>
    /\ ret.ok /\ obj.vals[2][1] = 9 /\ obj.vals[1] = before.vals[1]

----------------------------------------------------------------------------
\* Claims about the write that is issued again after an enlargement
\* (checked under Spec)

\* the indexer the key of the last call was converted to
FirstIndexer == convert_tuple(call.name, before, CallKey, TRUE)

\* the last call assigned a scalar through ix or loc to a table with a key
\* (row, column) whose column is missing: the column is added and the
\* assignment is issued again through loc (lines 153-159)
ColumnEnlarged ==
    /\ call.op = "setitem" /\ call.name \in {"ix", "loc"}
    /\ call.value.t = "scalar"
    /\ before.ndim = 2
    /\ CallKey.t = "tuple" /\ Len(CallKey.items) = 2
    /\ FirstIndexer.items[1].t \in {"pos", "missing"}
    /\ FirstIndexer.items[2].t = "missing"

\* the object the assignment is issued on again: a missing row is added
\* first (lines 162-164), then the column (line 157)
SecondObject ==
    LET row == FirstIndexer.items[1]
        o1 == IF row.t = "missing"
              THEN reindex_axis(before,
                                safe_append_to_index(before.axes[1], row.key), 0).o
              ELSE before
    IN  frame_setitem_nan(o1, FirstIndexer.items[2].key)

\* the indexer of the assignment issued again
SecondIndexer ==
    convert_tuple("loc", SecondObject,
                  convert_from_missing_indexer_tuple(FirstIndexer), TRUE)

\* C27: the assignment that is issued again after the column was added
\* finds its key present: no entry of its indexer is a missing key, so no
\* axis is enlarged a second time.
C27_SecondWriteFindsKey ==
    ColumnEnlarged
    => \A i \in DOMAIN SecondIndexer.items : SecondIndexer.items[i].t # "missing"

\* the row key of the last call resolved to the position of a row of the
\* table
RowResolved ==
    /\ ColumnEnlarged
    /\ FirstIndexer.items[1].t = "pos"
    /\ FirstIndexer.items[1].p \in 0..(Len(before.axes[1].labels) - 1)

\* C28: when the write adds a column and the row key resolved to the
\* position p, the write raises nothing, no row is added, the value is in
\* row p of the new column and the other rows of that column hold the
\* missing fill.
C28_RowKeepsPosition ==
    RowResolved
    => LET p == FirstIndexer.items[1].p
           c == Len(before.axes[2].labels) + 1
       IN  /\ ret.ok
           /\ obj.axes[1] = before.axes[1]
           /\ Len(obj.axes[2].labels) = c
           /\ \A r \in DOMAIN obj.vals :
                  obj.vals[r][c] = IF r = p + 1 THEN call.value.v ELSE NaN

\* df.ix[1, "b"] = 9 on the rows 1 and the columns "a": a row labelled 0 is
\* added and takes the value
C28_RowAdded ==
    /\ RowResolved /\ call.name = "ix"
    /\ before.axes[1].labels = <<I(1)>> /\ before.axes[2].labels = <<S(1)>>
    /\ CallKey = TupleKey(<<ScalarKey(I(1)), ScalarKey(S(2))>>)
    /\ obj.axes[1].labels = <<I(1), I(0)>>
    /\ obj.vals[2][2] = 9 /\ obj.vals[1][2] = NaN

----------------------------------------------------------------------------
\* Claims about slices with a step (C29 checked under SpecSlice, C30 under
\* SpecLength)

\* the last call read a slice through ix or converted it for a write
SliceCall == call.op \in {"getitem", "convert"} /\ call.key.t = "slice"

\* what the read path returns for the slice of the last call
SliceRead ==
    IF call.op = "getitem" THEN ret ELSE get_slice_axis(before, call.key, 0)

\* the indexer the write path returns for the slice of the last call
SliceIndexer ==
    IF call.op = "convert" THEN ret.ix
    ELSE convert_to_indexer(get_axis(before, 0), call.key, TRUE)

\* the outcome r of the read and the indexer w of the write agree on an axis
\* of length n
SliceAgree(r, w, n) ==
    /\ r.ok <=> w.t # "err"
    /\ ~r.ok => r.exc = w.exc
    /\ r.ok => r.pos = select(w, n).pos

\* C29: for every slice and axis the read path of ix and the conversion of
\* the write path agree: one raises exactly when the other does, with the
\* same exception, and the positions read are the positions the returned
\* indexer denotes.
C29_SliceReadAsWritten ==
    SliceCall => SliceAgree(SliceRead, SliceIndexer, nrows(before))

\* a read of a slice with a step other than 1 that selects two entries or more
C29_Witness ==
    /\ SliceCall /\ call.op = "getitem"
    /\ call.key.step \in {2, -1}
    /\ ret.ok /\ Len(ret.pos) >= 2
    /\ C29_SliceReadAsWritten

\* a slice both paths reject
C29_WitnessRaises ==
    /\ SliceCall /\ call.op = "convert"
    /\ ~ret.ok /\ ~SliceRead.ok

\* a slice without bounds and with the step -1 converted for a write
C29_WitnessReversed ==
    /\ SliceCall /\ call.op = "convert"
    /\ call.key.a = None /\ call.key.b = None /\ call.key.step = -1
    /\ ret.ok /\ nrows(before) >= 2
    /\ SliceRead.pos = [i \in 1..nrows(before) |-> nrows(before) - i]

\* C30: the length computed for a slice indexer is the number of positions
\* the slice selects on the axis, and is never negative.
C30_LengthIsCount ==
    call.op = "length"
    => /\ ret.len = Len(slice_positions(nrows(before), call.key.a, call.key.b,
                                        call.key.step))
       /\ ret.len >= 0

\* _length_of_indexer(slice(0, None, 2), index of 3 entries) is 1, the slice
\* selects the positions 0 and 2
C30_StepNotDividing ==
    /\ call.op = "length" /\ nrows(before) = 3
    /\ call.key = SliceKey(I(0), None, 2)
    /\ ret.len = 1

\* _length_of_indexer(slice(2, 1), index of 3 entries) is -1
C30_Negative ==
    /\ call.op = "length" /\ nrows(before) = 3
    /\ call.key = SliceKey(I(2), I(1), 0)
    /\ ret.len = -1
====
